---- MODULE Spec2Model ----
(***************************************************************************)
(* Read-through cache with pattern invalidation of the SpoutBreeze backend *)
(* (app/config/redis_config.py) and the cache-aware services built on it   *)
(* (app/services/cached/*.py over app/services/*.py).                      *)
(*                                                                         *)
(* Text is modelled as a sequence of symbols: one-character strings for    *)
(* the characters of ids and digests, and one symbol for each literal name *)
(* (a key prefix, a function name, the repr of a service instance).        *)
(***************************************************************************)
EXTENDS Integers, Sequences, FiniteSets, TLC

VARIABLES
    store,     \* the Redis keyspace: key -> entry
    last,      \* the latest completed operation: call, outcome, sweeps issued
    f,         \* the pure function wrapped in the generic read
    events,    \* table events: id -> row
    channels,  \* table channels: id -> [name, creator]; name "" is no row
    meetings,  \* table bbb_meetings: meeting id -> row state
    running,   \* meetings running on the BigBlueButton server
    rtmp,      \* table stream_endpoints: stream key -> row
    users,     \* table users: id -> row
    conn,      \* RedisCache.redis_client and the progress of connect()
    proc       \* where each coroutine inside an operation stands

vars == <<store, last, f, events, channels, meetings, running, rtmp, users,
          conn, proc>>

(* ---------------------------------------------------------------- bounds *)
DigestLen == 2
NumArgs == 2
NumEvents == 1
NumUsers == 1
NumTitles == 1
NumEndpoints == 2
NumChannels == 2

(* ------------------------------------------------------------ text model *)
Hex == <<"0", "1", "2", "3", "4", "5", "6", "7",
         "8", "9", "a", "b", "c", "d", "e", "f">>

Alphabet == Hex \o <<"-", "_", ",", "(", ")", "[", "]", "=", "t",
                     "self", "AsyncSession", "None",
                     "channel_id", "event_id", "meeting_id",
                     "rtmp_endpoints_id", "user_id",
                     "channel_name", "main", "side">>

Code(c) == IF \E i \in 1..Len(Alphabet) : Alphabet[i] = c
           THEN CHOOSE i \in 1..Len(Alphabet) : Alphabet[i] = c
           ELSE 0

RECURSIVE Pow16(_)
Pow16(n) == IF n = 0 THEN 1 ELSE 16 * Pow16(n - 1)

RECURSIVE HashOf(_, _)
HashOf(s, h) == IF s = <<>> THEN h
                ELSE HashOf(Tail(s), (h * 37 + Code(Head(s))) % Pow16(DigestLen))

RECURSIVE HexDigits(_, _)
HexDigits(n, len) == IF len = 0 THEN <<>>
                     ELSE HexDigits(n \div 16, len - 1) \o <<Hex[(n % 16) + 1]>>

\* hashlib.md5(key_data.encode()).hexdigest(): a fixed-length hex token
Md5Hex(keyData) == HexDigits(HashOf(keyData, 7), DigestLen)

\* str(uuid): hex digits separated by dashes
UuidStr(i) == <<Hex[i + 1], "-", Hex[i + 1]>>

\* the meeting id of event i: title.replace(" ", "_")[:32] + "_" + token_hex
MeetingStr(i) == <<"t", "_", Hex[i + 1]>>

\* the repr of a service instance and of a database session
SelfStr == <<"self">>
DbStr(n) == <<"AsyncSession", Hex[n + 1]>>

\* str(args): "(a1, a2, ...)"
RECURSIVE JoinArgs(_)
JoinArgs(args) == IF args = <<>> THEN <<>>
                  ELSE IF Len(args) = 1 THEN Head(args)
                  ELSE Head(args) \o <<",">> \o JoinArgs(Tail(args))

TupleStr(args) == <<"(">> \o JoinArgs(args) \o <<")">>

\* a sequence without its i-th element
Without(s, i) == SubSeq(s, 1, i - 1) \o SubSeq(s, i + 1, Len(s))

\* sorted(kwargs.items()): kwargs holds the (name, value) pairs in the order
\* of the call site; sorted puts them in the order of the names
RECURSIVE SortedItems(_)
SortedItems(kw) ==
    IF kw = <<>> THEN <<>>
    ELSE LET i == CHOOSE i \in DOMAIN kw :
                    \A j \in DOMAIN kw : Code(kw[i][1]) <= Code(kw[j][1])
         IN <<kw[i]>> \o SortedItems(Without(kw, i))

RECURSIVE ItemsStr(_)
ItemsStr(items) ==
    IF items = <<>> THEN <<>>
    ELSE <<"(", Head(items)[1], ",">> \o Head(items)[2] \o <<")">>
         \o ItemsStr(Tail(items))

ListStr(items) == <<"[">> \o ItemsStr(items) \o <<"]">>

\* a key derivation that takes kwargs.items() in the order of the call site
generate_cache_key_unsorted(args, kwargs) ==
    Md5Hex(TupleStr(args) \o ListStr(kwargs))

\* key_data = str(args) + str(sorted(kwargs.items())), then the md5 hex digest
generate_cache_key(args, kwargs) ==
    Md5Hex(TupleStr(args) \o ListStr(SortedItems(kwargs)))

\* f"{key_prefix}:{func.__name__}:{generate_cache_key(*args, **kwargs)}"
CacheKey(prefix, fname, args, kwargs) ==
    <<prefix, ":", fname, ":">> \o generate_cache_key(args, kwargs)

\* cached_db: the same key, derived after dropping every positional and keyword
\* argument that is a database session
IsOpaque(a) == a # <<>> /\ Head(a) = "AsyncSession"

RECURSIVE FilterArgs(_)
FilterArgs(args) ==
    IF args = <<>> THEN <<>>
    ELSE IF IsOpaque(Head(args)) THEN FilterArgs(Tail(args))
         ELSE <<Head(args)>> \o FilterArgs(Tail(args))

\* a cached_db that leaves the database session in the key
CacheKeyDbUnfiltered(prefix, fname, args, kwargs) ==
    CacheKey(prefix, fname, args, kwargs)

CacheKeyDb(prefix, fname, args, kwargs) ==
    CacheKey(prefix, fname, FilterArgs(args),
             SelectSeq(kwargs, LAMBDA x : ~IsOpaque(x[2])))

\* Redis KEYS glob: "*" matches any run of symbols, anything else itself
RECURSIVE GlobMatch(_, _)
GlobMatch(p, s) ==
    IF p = <<>> THEN s = <<>>
    ELSE IF Head(p) = "*"
         THEN GlobMatch(Tail(p), s) \/ (s # <<>> /\ GlobMatch(p, Tail(s)))
         ELSE s # <<>> /\ Head(p) = Head(s) /\ GlobMatch(Tail(p), Tail(s))

\* "prefix:*" and f"prefix:*{id}*"
PrefixPattern(prefix) == <<prefix, ":", "*">>
IdPattern(prefix, idStr) == <<prefix, ":", "*">> \o idStr \o <<"*">>

(* --------------------------------------------------------- python values *)
\* a value is its type and the set of the tuples it is made of
None == [t |-> "None", items |-> {}]
ListOf(rows) == [t |-> "list", items |-> rows]
Obj(kind, row) == [t |-> kind, items |-> {row}]

\* pickle.dumps / pickle.loads; bytes that no pickle.dumps wrote do not load
PickleDumps(v) == [pickled |-> v, valid |-> TRUE]
PickleLoads(b) == b.pickled
Garbage == [pickled |-> None, valid |-> FALSE]

(* ------------------------------------------------------------ RedisCache *)
\* an entry: the bytes and the TTL they were set with
Entry(v, ttl) == [bytes |-> PickleDumps(v), ttl |-> ttl]

\* get on a connected client: pickle.loads of what is stored; a key that is
\* absent and bytes that do not load both give None
CacheGet(st, key) ==
    IF key \in DOMAIN st /\ st[key].bytes.valid
    THEN PickleLoads(st[key].bytes) ELSE None

\* a set that keeps what is already under the key (SET ... NX)
CacheSetIfAbsent(st, key, v, ttl) ==
    [k \in (DOMAIN st) \cup {key} |->
        IF k = key /\ k \notin DOMAIN st THEN Entry(v, ttl) ELSE st[k]]

\* setex: the pickled value under the key, whatever was there
CacheSet(st, key, v, ttl) ==
    [k \in (DOMAIN st) \cup {key} |-> IF k = key THEN Entry(v, ttl) ELSE st[k]]

DeletePattern(st, pattern) ==
    [k \in {x \in DOMAIN st : ~GlobMatch(pattern, x)} |-> st[k]]

RECURSIVE DeletePatterns(_, _)
DeletePatterns(st, patterns) ==
    IF patterns = <<>> THEN st
    ELSE DeletePatterns(DeletePattern(st, Head(patterns)), Tail(patterns))

\* conn.client: "none" is redis_client None (never connected, or connect()
\* gave up), "up" a client whose server answers, "down" one whose server
\* does not

\* a Python bool: True is 1, False is 0
Bool(b) == [t |-> "bool", items |-> {<<IF b THEN 1 ELSE 0>>}]

\* a store call reaches the server when there is a client, the server
\* answers and the call itself does not fault
Reaches(c, fault) == c.client = "up" /\ ~fault

\* RedisCache.get without its try/except: what the client raises, the bytes
\* that do not load included, reaches the caller
RedisGetUnguarded(c, st, key, fault) ==
    [raised |-> \/ (c.client # "none" /\ ~Reaches(c, fault))
                \/ (Reaches(c, fault) /\ key \in DOMAIN st /\ ~st[key].bytes.valid),
     value |-> IF Reaches(c, fault) THEN CacheGet(st, key) ELSE None]

\* RedisCache.get: None without a client, None on any exception
RedisGet(c, st, key, fault) ==
    [raised |-> FALSE,
     value |-> IF Reaches(c, fault) THEN CacheGet(st, key) ELSE None]

\* a set that keeps the entry a key already has (SET with NX)
RedisSetKeepFirst(c, st, key, v, ttl, fault) ==
    [raised |-> FALSE,
     ret |-> Bool(Reaches(c, fault)),
     store |-> IF Reaches(c, fault) /\ key \notin DOMAIN st
               THEN CacheSet(st, key, v, ttl) ELSE st]

\* RedisCache.set: False without a client, False on any exception
RedisSet(c, st, key, v, ttl, fault) ==
    [raised |-> FALSE,
     ret |-> Bool(Reaches(c, fault)),
     store |-> IF Reaches(c, fault) THEN CacheSet(st, key, v, ttl) ELSE st]

\* RedisCache.delete
RedisDelete(c, st, key, fault) ==
    [raised |-> FALSE,
     ret |-> Bool(Reaches(c, fault)),
     store |-> IF Reaches(c, fault)
               THEN [k \in DOMAIN st \ {key} |-> st[k]] ELSE st]

\* a delete_pattern that removes every key when one key matches
RedisDeletePatternAll(c, st, pattern, fault) ==
    [raised |-> FALSE,
     ret |-> Bool(Reaches(c, fault)),
     store |-> IF Reaches(c, fault) /\ \E k \in DOMAIN st : GlobMatch(pattern, k)
               THEN <<>> ELSE st]

\* RedisCache.delete_pattern
RedisDeletePattern(c, st, pattern, fault) ==
    [raised |-> FALSE,
     ret |-> Bool(Reaches(c, fault)),
     store |-> IF Reaches(c, fault) THEN DeletePattern(st, pattern) ELSE st]

\* RedisCache.health_check
RedisHealthCheck(c, fault) == [raised |-> FALSE, ret |-> Bool(Reaches(c, fault))]

(* ---------------------------------------------------------------- cached *)
\* a wrapper that tests `if cached_result:` and so misses on an empty list
CachedHitTruthy(st, key) ==
    CacheGet(st, key) # None /\ CacheGet(st, key) # ListOf({})

CachedHit(st, key) == CacheGet(st, key) # None

\* the value the wrapper returns, given what the wrapped function computes
CachedResult(st, key, computed) ==
    IF CachedHit(st, key) THEN CacheGet(st, key) ELSE computed

\* a wrapper that forgets to store what it computed
CachedStoreNoSet(st, key, computed, ttl) == st

\* the store after the wrapper ran
CachedStore(st, key, computed, ttl) ==
    IF CachedHit(st, key) THEN st ELSE CacheSet(st, key, computed, ttl)

\* what a wrapped function does instead of returning
Raises == [t |-> "raise", items |-> {}]

\* a wrapper that stores None when the wrapped function raises
cached_wrapper_negative(c, st, key, computed, ttl, gf, sf) ==
    LET got == RedisGet(c, st, key, gf)
        put == RedisSet(c, st, key, IF computed = Raises THEN None ELSE computed,
                        ttl, sf)
    IN IF got.value # None
       THEN [raised |-> FALSE, invoked |-> FALSE, res |-> got.value, store |-> st]
       ELSE [raised |-> computed = Raises, invoked |-> TRUE,
             res |-> IF computed = Raises THEN None ELSE computed,
             store |-> put.store]

\* cached(ttl, key_prefix)(func)(*args): get; a value that is not None is
\* returned; otherwise func runs, and what it returns is set and returned
cached_wrapper(c, st, key, computed, ttl, gf, sf) ==
    LET got == RedisGet(c, st, key, gf)
        put == RedisSet(c, st, key, computed, ttl, sf)
    IN IF got.raised
       THEN [raised |-> TRUE, invoked |-> FALSE, res |-> None, store |-> st]
       ELSE IF got.value # None
       THEN [raised |-> FALSE, invoked |-> FALSE, res |-> got.value, store |-> st]
       ELSE IF computed = Raises
       THEN [raised |-> TRUE, invoked |-> TRUE, res |-> None, store |-> st]
       ELSE [raised |-> put.raised, invoked |-> TRUE,
             res |-> IF put.raised THEN None ELSE computed,
             store |-> put.store]

(* ------------------------------------------------ a wrapped pure function *)
Args == 1..NumArgs
Values == {None, ListOf({}), ListOf({<<1>>}), Obj("obj", <<1>>)}
DefaultTtl == 300

\* the record of an operation: its name and arguments, what it returned,
\* whether the function under the cache ran, whether the call raised, whether
\* it did what it was asked (a write: the mutation was made), whether it
\* returned an entry that differs from what the function under the cache
\* gives now, the patterns it passed to delete_pattern, how many entries
\* they removed, and whether it is a read that repeats the call before it
NoOp == [op |-> "init", arg |-> <<>>, res |-> None, invoked |-> FALSE,
         raised |-> FALSE, ok |-> TRUE, stale |-> FALSE,
         sweeps |-> <<>>, dropped |-> 0, again |-> FALSE]

\* the key of wrapper(a), derived once for every a
ReadKeys == [a \in Args |-> CacheKey("p", "fn", <<UuidStr(a)>>, <<>>)]
ReadKey(a) == ReadKeys[a]

NoEvent == [status |-> "none", title |-> 0, creator |-> 0, mc |-> FALSE,
            channel |-> 0]

EventIds == 1..NumEvents
Users == 1..NumUsers
Titles == 1..NumTitles
MeetingIds == 1..NumEvents

ChannelIds == 1..NumChannels
NoChannel == [name |-> "", creator |-> 0]
ChannelNames == {"main", "side"}

\* channel_name of the EventCreate requests
EventChannel == "main"

RtmpIds == 1..NumEndpoints
NoEndpoint == [owner |-> 0, title |-> 0]

Roles == {"admin", "moderator"}
Names == {"ann", "bob"}

dbVars == <<events, channels, meetings, running, rtmp, users>>
envVars == <<conn, proc>>

\* redis_client after a connect() that succeeded at once
Connected == [client |-> "up", pc |-> "done", attempt |-> 1, failed |-> 0,
              delay |-> 2, slept |-> <<>>]

\* no read and no write under way
Idle == [rpc |-> "idle", rarg |-> 0, rval |-> None, wpc |-> "idle", warg |-> 0]

InitTables ==
    /\ events = [e \in EventIds |-> NoEvent]
    /\ channels = [c \in ChannelIds |-> NoChannel]
    /\ meetings = [m \in MeetingIds |-> "none"]
    /\ running = {}
    /\ rtmp = [r \in RtmpIds |-> NoEndpoint]
    /\ users = [u \in Users |-> [name |-> "ann", roles |-> "moderator"]]

InitDb ==
    /\ proc = Idle
    /\ InitTables

Init ==
    /\ store = <<>>
    /\ last = NoOp
    /\ f \in [Args -> Values]
    /\ InitDb
    /\ conn = Connected

\* wrapper(*args): cached(ttl=300, key_prefix="p")(fn)(a)
CallCached(a) ==
    /\ store' = CachedStore(store, ReadKey(a), f[a], DefaultTtl)
    /\ last' = [op |-> "call", arg |-> <<a>>,
                res |-> CachedResult(store, ReadKey(a), f[a]),
                invoked |-> ~CachedHit(store, ReadKey(a)),
                raised |-> FALSE, ok |-> TRUE,
                stale |-> CachedHit(store, ReadKey(a))
                          /\ CacheGet(store, ReadKey(a)) # f[a],
                sweeps |-> <<>>, dropped |-> 0,
                again |-> last.op = "call" /\ last.arg = <<a>>]
    /\ UNCHANGED <<envVars, f, dbVars>>

\* cache.delete_pattern("p:*") issued by some writer
Invalidate ==
    /\ store' = DeletePattern(store, PrefixPattern("p"))
    /\ last' = [NoOp EXCEPT !.op = "invalidate",
                            !.sweeps = <<PrefixPattern("p")>>,
                            !.dropped = Cardinality(DOMAIN store)]
    /\ UNCHANGED <<envVars, f, dbVars>>

Next == (\E a \in Args : CallCached(a)) \/ Invalidate

Spec == Init /\ [][Next]_vars

(* ------------------------------------------ faults, failures, bad bytes *)
\* redis_client after a connect() whose five attempts failed
Disabled == [client |-> "none", pc |-> "done", attempt |-> 5, failed |-> 5,
             delay |-> 32, slept |-> <<2, 4, 8, 16>>]

FaultValues == {None, ListOf({<<1>>}), Raises}

InitFault ==
    /\ store = <<>>
    /\ last = NoOp
    /\ f \in [Args -> FaultValues]
    /\ InitDb
    /\ conn \in {Connected, Disabled}

\* a wrapped read whose get faults (gf) and whose set faults (sf)
CallFaulty(a, gf, sf) ==
    LET r == cached_wrapper(conn, store, ReadKey(a), f[a], DefaultTtl, gf, sf)
    IN /\ store' = r.store
       /\ last' = [op |-> "call", arg |-> <<a, gf, sf>>, res |-> r.res,
                   invoked |-> r.invoked, raised |-> r.raised, ok |-> ~r.raised,
                   stale |-> ~r.invoked /\ r.res # f[a],
                   sweeps |-> <<>>,
                   dropped |-> IF /\ ReadKey(a) \in DOMAIN store
                                  /\ ~store[ReadKey(a)].bytes.valid
                                  /\ r.store # store
                               THEN 1 ELSE 0,
                   again |-> last.op = "call" /\ last.arg[1] = a]
       /\ UNCHANGED <<envVars, f, dbVars>>

\* the bytes under the key of a become bytes that pickle.loads rejects
Corrupt(a) ==
    /\ ReadKey(a) \in DOMAIN store
    /\ store[ReadKey(a)].bytes.valid
    /\ store' = [store EXCEPT ![ReadKey(a)].bytes = Garbage]
    /\ last' = [NoOp EXCEPT !.op = "corrupt", !.arg = <<a>>]
    /\ UNCHANGED <<envVars, f, dbVars>>

\* a write of a cache-aware service: the mutation, then delete_pattern
WriteFaulty(a, v, fault) ==
    LET r == RedisDeletePattern(conn, store, PrefixPattern("p"), fault)
    IN /\ f' = [f EXCEPT ![a] = v]
       /\ store' = r.store
       /\ last' = [op |-> "write", arg |-> <<a, fault>>, res |-> v,
                   invoked |-> TRUE, raised |-> r.raised, ok |-> ~r.raised,
                   stale |-> FALSE, sweeps |-> <<PrefixPattern("p")>>,
                   dropped |-> Cardinality(DOMAIN store)
                               - Cardinality(DOMAIN r.store),
                   again |-> FALSE]
       /\ UNCHANGED <<envVars, dbVars>>

NextFault ==
    \/ \E a \in Args, gf \in BOOLEAN, sf \in BOOLEAN : CallFaulty(a, gf, sf)
    \/ \E a \in Args : Corrupt(a)
    \/ \E a \in Args, v \in FaultValues \ {Raises}, fault \in BOOLEAN :
         WriteFaulty(a, v, fault)

SpecFault == InitFault /\ [][NextFault]_vars

(* ------------------------------------- a read and a write that interleave *)
RaceValues == {ListOf({}), ListOf({<<1>>})}

InitRace ==
    /\ store = <<>>
    /\ last = NoOp
    /\ f = [a \in Args |-> ListOf({})]
    /\ InitDb
    /\ conn = Connected

\* wrapper, up to the await of cache.get: a hit returns
ReadGet(a) ==
    LET got == RedisGet(conn, store, ReadKey(a), FALSE)
    IN /\ proc.rpc = "idle"
       /\ IF got.value # None
          THEN /\ proc' = proc
               /\ last' = [NoOp EXCEPT !.op = "call", !.arg = <<a>>,
                                       !.res = got.value,
                                       !.stale = got.value # f[a]]
          ELSE /\ proc' = [proc EXCEPT !.rpc = "computing", !.rarg = a]
               /\ last' = [NoOp EXCEPT !.op = "get", !.arg = <<a>>]
       /\ UNCHANGED <<store, conn, f, dbVars>>

\* result = await func(*args, **kwargs): the query sees what is committed
ReadCompute ==
    /\ proc.rpc = "computing"
    /\ proc' = [proc EXCEPT !.rpc = "setting", !.rval = f[proc.rarg]]
    /\ last' = [NoOp EXCEPT !.op = "compute", !.arg = <<proc.rarg>>]
    /\ UNCHANGED <<store, conn, f, dbVars>>

\* await cache.set(cache_key, result, ttl); return result
ReadSet ==
    LET r == RedisSet(conn, store, ReadKey(proc.rarg), proc.rval, DefaultTtl, FALSE)
    IN /\ proc.rpc = "setting"
       /\ store' = r.store
       /\ proc' = [proc EXCEPT !.rpc = "idle", !.rarg = 0, !.rval = None]
       /\ last' = [NoOp EXCEPT !.op = "call", !.arg = <<proc.rarg>>,
                               !.res = proc.rval, !.invoked = TRUE,
                               !.stale = proc.rval # f[proc.rarg]]
       /\ UNCHANGED <<conn, f, dbVars>>

\* res = await super().write(...): the mutation is committed
WriteCommit(a, v) ==
    /\ proc.wpc = "idle"
    /\ f' = [f EXCEPT ![a] = v]
    /\ proc' = [proc EXCEPT !.wpc = "invalidating", !.warg = a]
    /\ last' = [NoOp EXCEPT !.op = "commit", !.arg = <<a>>]
    /\ UNCHANGED <<store, conn, dbVars>>

\* await self._invalidate_after_change(...); return res
WriteInvalidate ==
    LET r == RedisDeletePattern(conn, store, PrefixPattern("p"), FALSE)
    IN /\ proc.wpc = "invalidating"
       /\ store' = r.store
       /\ proc' = [proc EXCEPT !.wpc = "idle", !.warg = 0]
       /\ last' = [NoOp EXCEPT !.op = "write", !.arg = <<proc.warg>>,
                               !.res = f[proc.warg],
                               !.sweeps = <<PrefixPattern("p")>>,
                               !.dropped = Cardinality(DOMAIN store)
                                           - Cardinality(DOMAIN r.store)]
       /\ UNCHANGED <<conn, f, dbVars>>

NextRace ==
    \/ \E a \in Args : ReadGet(a)
    \/ ReadCompute
    \/ ReadSet
    \/ \E a \in Args, v \in RaceValues : WriteCommit(a, v)
    \/ WriteInvalidate

SpecRace == InitRace /\ [][NextRace]_vars

(* ------------------------------------- two reads of one key that interleave *)
\* the two coroutines that run the wrapper
Callers == {"a", "b"}

\* a coroutine outside the wrapper
Waiting == [pc |-> "idle", arg |-> 0, val |-> None, missed |-> FALSE,
            invoked |-> FALSE]

InitFlight ==
    /\ store = <<>>
    /\ last = NoOp
    /\ f = [a \in Args |-> ListOf({})]
    /\ proc = [i \in Callers |-> Waiting]
    /\ InitTables
    /\ conn = Connected

\* wrapper of caller i, up to the await of cache.get: a hit returns
FlightGet(i, a) ==
    LET got == RedisGet(conn, store, ReadKey(a), FALSE)
    IN /\ proc[i].pc = "idle"
       /\ IF got.value # None
          THEN /\ proc' = proc
               /\ last' = [NoOp EXCEPT !.op = "call", !.arg = <<i, a>>,
                                       !.res = got.value,
                                       !.stale = got.value # f[a]]
          ELSE /\ proc' = [proc EXCEPT ![i] = [Waiting EXCEPT
                                !.pc = "computing", !.arg = a, !.missed = TRUE]]
               /\ last' = [NoOp EXCEPT !.op = "get", !.arg = <<i, a>>]
       /\ UNCHANGED <<store, conn, f, dbVars>>

\* result = await func(*args, **kwargs) of caller i
FlightCompute(i) ==
    /\ proc[i].pc = "computing"
    /\ proc' = [proc EXCEPT ![i].pc = "setting", ![i].val = f[proc[i].arg],
                            ![i].invoked = TRUE]
    /\ last' = [NoOp EXCEPT !.op = "compute", !.arg = <<i, proc[i].arg>>,
                            !.invoked = TRUE]
    /\ UNCHANGED <<store, conn, f, dbVars>>

\* await cache.set(cache_key, result, ttl) of caller i
FlightSet(i) ==
    LET r == RedisSet(conn, store, ReadKey(proc[i].arg), proc[i].val,
                      DefaultTtl, FALSE)
    IN /\ proc[i].pc = "setting"
       /\ store' = r.store
       /\ proc' = [proc EXCEPT ![i].pc = "returning"]
       /\ last' = [NoOp EXCEPT !.op = "set", !.arg = <<i, proc[i].arg>>,
                               !.res = proc[i].val]
       /\ UNCHANGED <<conn, f, dbVars>>

\* return result of caller i
FlightReturn(i) ==
    /\ proc[i].pc = "returning"
    /\ proc' = [proc EXCEPT ![i] = Waiting]
    /\ last' = [NoOp EXCEPT !.op = "call", !.arg = <<i, proc[i].arg>>,
                            !.res = proc[i].val, !.invoked = TRUE,
                            !.stale = proc[i].val # f[proc[i].arg]]
    /\ UNCHANGED <<store, conn, f, dbVars>>

\* what the wrapped function reads changes, with no invalidation
FlightChange(a, v) ==
    /\ f[a] # v
    /\ f' = [f EXCEPT ![a] = v]
    /\ last' = [NoOp EXCEPT !.op = "change", !.arg = <<a>>]
    /\ UNCHANGED <<store, envVars, dbVars>>

NextFlight ==
    \/ \E i \in Callers, a \in Args : FlightGet(i, a)
    \/ \E i \in Callers : FlightCompute(i)
    \/ \E i \in Callers : FlightSet(i)
    \/ \E i \in Callers : FlightReturn(i)
    \/ \E a \in Args, v \in RaceValues : FlightChange(a, v)

SpecFlight == InitFlight /\ [][NextFlight]_vars

(* ------------------------------------------------- reads and writes *)
cache_ttl_short == 300
cache_ttl_medium == 1800
cache_ttl_long == 3600
cache_ttl_user == 900
cache_ttl_bbb == 180
is_running_ttl == 60

(* ------------------------------------------------------- key derivation *)
KeyPrefixes == {"p", "q"}
KeyArgs == {<<>>} \cup {<<UuidStr(a)>> : a \in Args}

\* keyword arguments as call sites can write them: none, one, or two in
\* either order
KeyKwargs ==
    {<<>>}
    \cup {<<<<n, UuidStr(a)>>>> : n \in {"event_id", "user_id"}, a \in Args}
    \cup {<<<<"event_id", UuidStr(a)>>, <<"user_id", UuidStr(b)>>>> :
             a \in Args, b \in Args}
    \cup {<<<<"user_id", UuidStr(b)>>, <<"event_id", UuidStr(a)>>>> :
             a \in Args, b \in Args}

\* the same keyword arguments, in whatever order
SamePairs(k1, k2) ==
    /\ Len(k1) = Len(k2)
    /\ {k1[i] : i \in DOMAIN k1} = {k2[i] : i \in DOMAIN k2}

\* cache_key = f"{key_prefix}:{func.__name__}:{generate_cache_key(...)}"
DeriveKey(prefix, args, kwargs) ==
    /\ last' = [NoOp EXCEPT
                   !.op = "derive",
                   !.arg = <<prefix, args, kwargs>>,
                   !.res = Obj("str", CacheKey(prefix, "fn", args, kwargs)),
                   !.again = /\ last.op = "derive"
                             /\ last.arg[1] = prefix
                             /\ last.arg[2] = args
                             /\ SamePairs(last.arg[3], kwargs)]
    /\ UNCHANGED <<store, envVars, f, dbVars>>

\* no key derived yet
InitKeys ==
    /\ store = <<>>
    /\ last = NoOp
    /\ f = [a \in Args |-> None]
    /\ InitDb
    /\ conn = Connected

NextKeys ==
    \E prefix \in KeyPrefixes, args \in KeyArgs, kwargs \in KeyKwargs :
        DeriveKey(prefix, args, kwargs)

SpecKeys == InitKeys /\ [][NextKeys]_vars

(* ------------------------------------------------------- reads by cached_db *)
Sessions == 0..1

\* get_channel_by_id(self, db, channel_id) with the session passed by
\* position or by keyword
OpaqueArgs(a, n, pos) ==
    IF pos THEN <<SelfStr, DbStr(n), UuidStr(a)>> ELSE <<SelfStr>>

OpaqueKwargs(a, n, pos) ==
    IF pos THEN <<>> ELSE <<<<"db", DbStr(n)>>, <<"channel_id", UuidStr(a)>>>>

OpaqueKeys ==
    [a \in Args, n \in Sessions, pos \in BOOLEAN |->
        CacheKeyDb("channels_by_id", "get_channel_by_id",
                   OpaqueArgs(a, n, pos), OpaqueKwargs(a, n, pos))]

OpaqueKey(a, n, pos) == OpaqueKeys[a, n, pos]

OpaqueValues == {None, ListOf({<<1>>})}

InitOpaque ==
    /\ store = <<>>
    /\ last = NoOp
    /\ f \in [Args -> OpaqueValues]
    /\ InitDb
    /\ conn = Connected

read_db(a, n, pos) ==
    LET r == cached_wrapper(conn, store, OpaqueKey(a, n, pos), f[a],
                            cache_ttl_medium, FALSE, FALSE)
    IN /\ store' = r.store
       /\ last' = [NoOp EXCEPT !.op = "read_db", !.arg = <<a, n, pos>>,
                               !.res = r.res, !.invoked = r.invoked,
                               !.again = /\ last.op = "read_db"
                                         /\ last.arg[1] = a
                                         /\ last.arg[3] = pos]
       /\ UNCHANGED <<envVars, f, dbVars>>

\* ChannelsServiceCached._invalidate_after_change, the sweep of the prefix
invalidate_db ==
    LET r == RedisDeletePattern(conn, store, PrefixPattern("channels_by_id"),
                                FALSE)
    IN /\ store' = r.store
       /\ last' = [NoOp EXCEPT !.op = "invalidate",
                               !.sweeps = <<PrefixPattern("channels_by_id")>>,
                               !.dropped = Cardinality(DOMAIN store)
                                           - Cardinality(DOMAIN r.store)]
       /\ UNCHANGED <<envVars, f, dbVars>>

NextOpaque ==
    \/ \E a \in Args, n \in Sessions, pos \in BOOLEAN : read_db(a, n, pos)
    \/ invalidate_db

SpecOpaque == InitOpaque /\ [][NextOpaque]_vars

(* ------------------------------------------- RedisCache from construction *)
max_retries == 5
retry_delay == 2

\* RedisCache(): no client; connect() has made no attempt yet
Fresh == [client |-> "none", pc |-> "connecting", attempt |-> 0, failed |-> 0,
          delay |-> retry_delay, slept |-> <<>>]

\* a connect() that sleeps the same delay after every failed attempt
ConnectFixedDelay(c, pingOk) ==
    IF pingOk
    THEN [c EXCEPT !.client = "up", !.pc = "done", !.attempt = @ + 1]
    ELSE IF c.attempt < max_retries - 1
    THEN [c EXCEPT !.client = "down", !.attempt = @ + 1, !.failed = @ + 1,
                   !.slept = Append(@, c.delay)]
    ELSE [c EXCEPT !.client = "none", !.pc = "done", !.attempt = @ + 1,
                   !.failed = @ + 1]

\* a connect() that keeps the client of its last failed attempt
ConnectKeepsClient(c, pingOk) ==
    IF pingOk
    THEN [c EXCEPT !.client = "up", !.pc = "done", !.attempt = @ + 1]
    ELSE IF c.attempt < max_retries - 1
    THEN [c EXCEPT !.client = "down", !.attempt = @ + 1, !.failed = @ + 1,
                   !.slept = Append(@, c.delay), !.delay = 2 * @]
    ELSE [c EXCEPT !.client = "down", !.pc = "done", !.attempt = @ + 1,
                   !.failed = @ + 1]

\* one pass of the loop of connect(): the client is made and pinged; a ping
\* that answers ends connect(); one that fails is followed by a sleep of
\* retry_delay, which doubles, or after the last attempt by redis_client = None
Connect(c, pingOk) ==
    IF pingOk
    THEN [c EXCEPT !.client = "up", !.pc = "done", !.attempt = @ + 1]
    ELSE IF c.attempt < max_retries - 1
    THEN [c EXCEPT !.client = "down", !.attempt = @ + 1, !.failed = @ + 1,
                   !.slept = Append(@, c.delay), !.delay = 2 * @]
    ELSE [c EXCEPT !.client = "none", !.pc = "done", !.attempt = @ + 1,
                   !.failed = @ + 1]

ConnectAttempt(pingOk) ==
    /\ conn.pc = "connecting"
    /\ conn.attempt < max_retries
    /\ conn' = Connect(conn, pingOk)
    /\ last' = [NoOp EXCEPT !.op = "connect", !.arg = <<pingOk>>]
    /\ UNCHANGED <<store, proc, f, dbVars>>

\* the keys, values, TTLs and patterns the store is called with directly
StoreKeys == {ReadKey(1), CacheKey("q", "fn", <<UuidStr(1)>>, <<>>)}
StoreValues == {ListOf({<<1>>})}
StoreTtls == {DefaultTtl, cache_ttl_bbb}
StorePatterns == {PrefixPattern("p"), PrefixPattern("q"),
                  IdPattern("p", UuidStr(1))}

\* the record of a direct call of a RedisCache method
StoreOp(op, arg, r, res, st) ==
    [NoOp EXCEPT !.op = op, !.arg = arg, !.res = res, !.raised = r.raised,
                 !.ok = ~r.raised,
                 !.dropped = Cardinality(DOMAIN store) - Cardinality(DOMAIN st)]

StoreGet(k) ==
    LET r == RedisGet(conn, store, k, FALSE)
    IN /\ conn.pc = "done"
       /\ last' = StoreOp("get", <<k>>, r, r.value, store)
       /\ UNCHANGED <<store, envVars, f, dbVars>>

StoreSet(k, v, ttl) ==
    LET r == RedisSet(conn, store, k, v, ttl, FALSE)
    IN /\ conn.pc = "done"
       /\ store' = r.store
       /\ last' = StoreOp("set", <<k, v, ttl>>, r, r.ret, store)
       /\ UNCHANGED <<envVars, f, dbVars>>

StoreDelete(k) ==
    LET r == RedisDelete(conn, store, k, FALSE)
    IN /\ conn.pc = "done"
       /\ store' = r.store
       /\ last' = StoreOp("delete", <<k>>, r, r.ret, r.store)
       /\ UNCHANGED <<envVars, f, dbVars>>

StoreDeletePattern(p) ==
    LET r == RedisDeletePattern(conn, store, p, FALSE)
    IN /\ conn.pc = "done"
       /\ store' = r.store
       /\ last' = StoreOp("delete_pattern", <<p>>, r, r.ret, r.store)
       /\ UNCHANGED <<envVars, f, dbVars>>

StoreHealthCheck ==
    LET r == RedisHealthCheck(conn, FALSE)
    IN /\ conn.pc = "done"
       /\ last' = StoreOp("health_check", <<>>, r, r.ret, store)
       /\ UNCHANGED <<store, envVars, f, dbVars>>

\* RedisCache.close: the client, if there is one, is closed; redis_client
\* is not assigned
StoreClose ==
    /\ conn.pc = "done"
    /\ last' = [NoOp EXCEPT !.op = "close"]
    /\ UNCHANGED <<store, envVars, f, dbVars>>

InitStore ==
    /\ store = <<>>
    /\ last = NoOp
    /\ f = [a \in Args |-> ListOf({<<1>>})]
    /\ InitDb
    /\ conn = Fresh

NextStore ==
    \/ \E pingOk \in BOOLEAN : ConnectAttempt(pingOk)
    \/ \E k \in StoreKeys : StoreGet(k)
    \/ \E k \in StoreKeys, v \in StoreValues, ttl \in StoreTtls :
         StoreSet(k, v, ttl)
    \/ \E k \in StoreKeys : StoreDelete(k)
    \/ \E p \in StorePatterns : StoreDeletePattern(p)
    \/ StoreHealthCheck
    \/ StoreClose
    \/ \E a \in Args : conn.pc = "done" /\ CallFaulty(a, FALSE, FALSE)
    \/ \E a \in Args, v \in StoreValues :
         conn.pc = "done" /\ WriteFaulty(a, v, FALSE)

SpecStore == InitStore /\ [][NextStore]_vars

\* connect() is awaited: its pings and sleeps return
SpecConnect ==
    InitStore /\ [][NextStore]_vars
        /\ WF_conn(\E pingOk \in BOOLEAN : ConnectAttempt(pingOk))

\* a wrapped read: a hit returns the entry; a miss runs the function, which
\* either raises (nothing is stored) or returns a value that is stored
ReadStep(op, arg, key, raises, computed, ttl) ==
    LET hit == CachedHit(store, key)
    IN /\ store' = IF ~hit /\ raises THEN store
                   ELSE CachedStore(store, key, computed, ttl)
       /\ last' = [op |-> op, arg |-> arg,
                   res |-> IF ~hit /\ raises THEN None
                           ELSE CachedResult(store, key, computed),
                   invoked |-> ~hit,
                   raised |-> ~hit /\ raises,
                   ok |-> hit \/ ~raises,
                   stale |-> hit /\ (raises \/ CacheGet(store, key) # computed),
                   sweeps |-> <<>>, dropped |-> 0,
                   again |-> last.op = op /\ last.arg = arg]

\* a write: the outcome of the mutation, then the delete_pattern calls
WriteStep(op, arg, raised, ok, res, patterns) ==
    /\ store' = DeletePatterns(store, patterns)
    /\ last' = [op |-> op, arg |-> arg, res |-> res, invoked |-> TRUE,
                raised |-> raised, ok |-> ok, stale |-> FALSE,
                sweeps |-> patterns,
                dropped |-> Cardinality(DOMAIN store)
                            - Cardinality(DOMAIN DeletePatterns(store, patterns)),
                again |-> FALSE]

(* ------------------------------------------------------- BigBlueButton *)
\* what _call_bbb_api can give: returncode SUCCESS, another returncode, or
\* a status other than 200 (HTTPException)
Responses == {"SUCCESS", "FAILED", "HTTP"}

\* the server ends only a meeting that is running
EndAnswers(m, rn) == {r \in Responses : r = "SUCCESS" => m \in rn}

Dict(k, v) == [t |-> "dict", items |-> {<<k, v>>}]

\* BBBService.end_meeting
plain_end_meeting(m, resp, mt, rn) ==
    [raised |-> resp = "HTTP",
     meetings |-> IF resp = "SUCCESS" /\ mt[m] # "none"
                  THEN [mt EXCEPT ![m] = "ended"] ELSE mt,
     running |-> IF resp = "SUCCESS" THEN rn \ {m} ELSE rn]

\* BBBService.create_meeting: anything but SUCCESS raises
plain_create_meeting(m, resp, mt, rn) ==
    [raised |-> resp # "SUCCESS",
     meetings |-> IF resp = "SUCCESS" THEN [mt EXCEPT ![m] = "open"] ELSE mt,
     running |-> IF resp = "SUCCESS" THEN rn \cup {m} ELSE rn]

\* BBBService.update_meeting_status: no row, no success; is_ended marks the
\* row; otherwise getMeetingInfo is asked, and a status other than 200 is
\* reported as a failure
plain_update_meeting_status(m, is_ended, resp, mt) ==
    IF mt[m] = "none" THEN [success |-> FALSE, meetings |-> mt]
    ELSE IF is_ended THEN [success |-> TRUE,
                           meetings |-> [mt EXCEPT ![m] = "ended"]]
    ELSE [success |-> resp # "HTTP", meetings |-> mt]

(* -------------------------------------------------------- EventService *)
Exists(ev, e) == e \in EventIds /\ ev[e].status \notin {"none", "deleted"}

Unchanged(ev, mt, rn) ==
    [raised |-> TRUE, events |-> ev, meetings |-> mt, running |-> rn]

\* a start_event that creates the meeting whatever meeting_created says
plain_start_event_again(e, u, resp, ev, mt, rn) ==
    LET found == Exists(ev, e) /\ ev[e].creator = u
    IN IF ~found THEN Unchanged(ev, mt, rn)
       ELSE IF resp # "SUCCESS" THEN Unchanged(ev, mt, rn)
       ELSE [raised |-> FALSE,
             events |-> [ev EXCEPT ![e].mc = TRUE, ![e].status = "live"],
             meetings |-> [mt EXCEPT ![e] = "open"],
             running |-> rn \cup {e}]

\* EventService.start_event
plain_start_event(e, u, resp, ev, mt, rn) ==
    LET found == Exists(ev, e) /\ ev[e].creator = u
    IN IF ~found THEN Unchanged(ev, mt, rn)
       ELSE IF ~ev[e].mc
            THEN IF resp # "SUCCESS" THEN Unchanged(ev, mt, rn)
                 ELSE [raised |-> FALSE,
                       events |-> [ev EXCEPT ![e].mc = TRUE,
                                             ![e].status = "live"],
                       meetings |-> [mt EXCEPT ![e] = "open"],
                       running |-> rn \cup {e}]
            ELSE [raised |-> FALSE, events |-> ev,
                  meetings |-> mt, running |-> rn]

\* EventService.end_event; self.bbb_service is a plain BBBService
plain_end_event(e, u, resp, ev, mt, rn) ==
    LET found == Exists(ev, e) /\ ev[e].creator = u
        bbb == plain_end_meeting(e, resp, mt, rn)
    IN IF ~found THEN Unchanged(ev, mt, rn)
       ELSE IF ev[e].status # "live" THEN Unchanged(ev, mt, rn)
       ELSE IF bbb.raised THEN Unchanged(ev, mt, rn)
       ELSE [raised |-> FALSE,
             events |-> [ev EXCEPT ![e].status = "ended"],
             meetings |-> bbb.meetings,
             running |-> bbb.running]

\* the answers that make a difference to start_event and to end_event
StartAnswers(e, u) ==
    IF Exists(events, e) /\ events[e].creator = u /\ ~events[e].mc
    THEN Responses ELSE {"SUCCESS"}

EndEventAnswers(e, u) ==
    IF Exists(events, e) /\ events[e].creator = u /\ events[e].status = "live"
    THEN EndAnswers(e, running) ELSE {"FAILED"}

(* -------------------------------------------------- EventServiceCached *)
EventItem(ev, e) == <<e, ev[e].status, ev[e].title>>

\* get_events_by_status(db, status, user_id)
EventsByStatus(ev, status, u) ==
    ListOf({EventItem(ev, e) : e \in {x \in EventIds :
                Exists(ev, x) /\ ev[x].status = status /\ ev[x].creator = u}})

\* an invalidation that forgets the list of live events
events_invalidate_without_live(e) ==
    <<PrefixPattern("events_all"), PrefixPattern("events_status"),
      PrefixPattern("events_upcoming"), PrefixPattern("events_past"),
      PrefixPattern("events_channel"), PrefixPattern("events_join")>>
    \o (IF e # 0 THEN <<IdPattern("events_by_id", UuidStr(e))>> ELSE <<>>)

\* EventServiceCached._invalidate_after_change
events_invalidate_after_change(e) ==
    <<PrefixPattern("events_all"), PrefixPattern("events_status"),
      PrefixPattern("events_upcoming"), PrefixPattern("events_past"),
      PrefixPattern("events_live"), PrefixPattern("events_channel"),
      PrefixPattern("events_join")>>
    \o (IF e # 0 THEN <<IdPattern("events_by_id", UuidStr(e))>> ELSE <<>>)

\* the patterns swept after a change of event e (0: no id known)
EventPatterns == [e \in 0..NumEvents |-> events_invalidate_after_change(e)]

\* the key of event_service.get_event_by_id(db=db, event_id=event_id)
EventByIdKey ==
    [e \in EventIds |->
        CacheKeyDb("events_by_id", "get_event_by_id", <<SelfStr>>,
                   <<<<"db", DbStr(0)>>, <<"event_id", UuidStr(e)>>>>)]

\* the key of event_service.get_<which>_events(db=db, user_id=current_user.id)
EventListKey(prefix, fname, u) ==
    CacheKeyDb(prefix, fname, <<SelfStr>>,
               <<<<"db", DbStr(0)>>, <<"user_id", UuidStr(u)>>>>)

UpcomingKey ==
    [u \in Users |-> EventListKey("events_upcoming", "get_upcoming_events", u)]
LiveKey == [u \in Users |-> EventListKey("events_live", "get_live_events", u)]
PastKey == [u \in Users |-> EventListKey("events_past", "get_past_events", u)]

get_event_by_id(e) ==
    /\ ReadStep("get_event_by_id", <<e>>, EventByIdKey[e], ~Exists(events, e),
                Obj("event", EventItem(events, e)), cache_ttl_long)
    /\ UNCHANGED <<envVars, f, dbVars>>

get_upcoming_events(u) ==
    /\ ReadStep("get_upcoming_events", <<u>>,
                UpcomingKey[u],
                FALSE, EventsByStatus(events, "scheduled", u), cache_ttl_long)
    /\ UNCHANGED <<envVars, f, dbVars>>

get_live_events(u) ==
    /\ ReadStep("get_live_events", <<u>>,
                LiveKey[u],
                FALSE, EventsByStatus(events, "live", u), cache_ttl_long)
    /\ UNCHANGED <<envVars, f, dbVars>>

get_past_events(u) ==
    /\ ReadStep("get_past_events", <<u>>,
                PastKey[u],
                FALSE, EventsByStatus(events, "ended", u), cache_ttl_long)
    /\ UNCHANGED <<envVars, f, dbVars>>

\* the id the database gives the next event
NewEventId == CHOOSE e \in EventIds :
                 /\ events[e].status = "none"
                 /\ \A x \in EventIds : events[x].status = "none" => e <= x

\* ChannelsService.get_channel_by_name: the rows scalar_one_or_none looks at
ChannelsNamed(ch, u, n) ==
    {c \in ChannelIds : ch[c].creator = u /\ ch[c].name = n}

\* the id the database gives the next channel
NewChannelId(ch) == CHOOSE c \in ChannelIds :
                      /\ ch[c] = NoChannel
                      /\ \A x \in ChannelIds : ch[x] = NoChannel => c <= x

\* ChannelsService.create_channel: a row is added, whatever its name
plain_create_channel(ch, u, n) ==
    [ch EXCEPT ![NewChannelId(ch)] = [name |-> n, creator |-> u]]

\* create_event: the title check (ValueError), get-or-create of the channel
\* with the plain ChannelsService (get_channel_by_name raises when the user
\* has several channels of that name), the insert with its meeting id and
\* passwords
create_event(u, t) ==
    LET named == ChannelsNamed(channels, u, EventChannel)
        c == IF named = {} THEN NewChannelId(channels)
             ELSE CHOOSE x \in named : TRUE
    IN
    /\ \E e \in EventIds : events[e].status = "none"
    /\ named = {} => \E x \in ChannelIds : channels[x] = NoChannel
    /\ IF \/ \E x \in EventIds : Exists(events, x) /\ events[x].title = t
          \/ Cardinality(named) > 1
       THEN /\ WriteStep("create_event", <<0, u>>, TRUE, FALSE, None, <<>>)
            /\ UNCHANGED <<envVars, f, dbVars>>
       ELSE /\ events' = [events EXCEPT ![NewEventId] =
                            [status |-> "scheduled", title |-> t, creator |-> u,
                             mc |-> FALSE, channel |-> c]]
            /\ channels' = IF named = {}
                           THEN plain_create_channel(channels, u, EventChannel)
                           ELSE channels
            /\ WriteStep("create_event", <<NewEventId, u>>, FALSE, TRUE, None,
                         EventPatterns[NewEventId])
            /\ UNCHANGED <<envVars, f, rtmp, users, meetings, running>>

start_event(e, u, resp) ==
    LET r == plain_start_event(e, u, resp, events, meetings, running)
    IN /\ events' = r.events
       /\ meetings' = r.meetings
       /\ running' = r.running
       /\ WriteStep("start_event", <<e, u>>, r.raised, ~r.raised, None,
                    IF r.raised THEN <<>> ELSE EventPatterns[e])
       /\ UNCHANGED <<envVars, f, rtmp, users, channels>>

end_event(e, u, resp) ==
    LET r == plain_end_event(e, u, resp, events, meetings, running)
    IN /\ events' = r.events
       /\ meetings' = r.meetings
       /\ running' = r.running
       /\ WriteStep("end_event", <<e, u>>, r.raised, ~r.raised, None,
                    IF r.raised THEN <<>> ELSE EventPatterns[e])
       /\ UNCHANGED <<envVars, f, rtmp, users, channels>>

update_event(e, u, t) ==
    LET found == Exists(events, e) /\ events[e].creator = u
    IN /\ events' = IF found THEN [events EXCEPT ![e].title = t] ELSE events
       /\ WriteStep("update_event", <<e, u>>, ~found, found, None,
                    IF found THEN EventPatterns[e] ELSE <<>>)
       /\ UNCHANGED <<envVars, f, rtmp, users, channels, meetings, running>>

delete_event(e, u) ==
    LET found == Exists(events, e) /\ events[e].creator = u
    IN /\ events' = IF found
                    THEN [events EXCEPT ![e] = [NoEvent EXCEPT !.status = "deleted"]]
                    ELSE events
       /\ WriteStep("delete_event", <<e, u>>, ~found, found, None,
                    IF found THEN EventPatterns[e] ELSE <<>>)
       /\ UNCHANGED <<envVars, f, rtmp, users, channels, meetings, running>>

(* ---------------------------------------------------- BBBServiceCached *)
\* BBBServiceCached._invalidate_after_change
bbb_invalidate_after_change(m) ==
    <<PrefixPattern("bbb:meetings"),
      IdPattern("bbb:meeting_info", MeetingStr(m)),
      IdPattern("bbb:is_running", MeetingStr(m)),
      IdPattern("bbb:recordings", MeetingStr(m))>>

\* str(request) of a request that carries the meeting id
RequestStr(m) == <<"meeting_id", "=">> \o MeetingStr(m)

IsRunningKey ==
    [m \in MeetingIds |->
        CacheKey("bbb:is_running", "is_meeting_running_cached",
                 <<SelfStr, RequestStr(m)>>, <<>>)]

BbbPatterns == [m \in MeetingIds |-> bbb_invalidate_after_change(m)]

is_meeting_running_cached(m, http) ==
    /\ ReadStep("is_meeting_running_cached", <<m>>, IsRunningKey[m], http,
                Dict("running", m \in running), is_running_ttl)
    /\ UNCHANGED <<envVars, f, dbVars>>

\* BBBService.meeting_ended_callback under BBBServiceCached: mark the meeting
\* row ended; with an event id, look the event up by meeting id and end
\* event_id with a fresh plain EventService, swallowing what it raises
meeting_ended_callback(m, eid, resp) ==
    LET st == plain_update_meeting_status(m, TRUE, "SUCCESS", meetings)
        hasEvent == Exists(events, m)
        callEnd == st.success /\ eid # 0 /\ hasEvent
        r == plain_end_event(eid, events[m].creator, resp,
                             events, st.meetings, running)
    IN /\ events' = IF callEnd THEN r.events ELSE events
       /\ meetings' = IF callEnd THEN r.meetings ELSE st.meetings
       /\ running' = IF callEnd THEN r.running ELSE running
       /\ WriteStep("meeting_ended_callback", <<m, eid>>, FALSE, st.success,
                    Dict("success", st.success),
                    BbbPatterns[m] \o BbbPatterns[m])
       /\ UNCHANGED <<envVars, f, rtmp, users, channels>>

\* BBBServiceCached.create_meeting
create_meeting(m, resp) ==
    LET r == plain_create_meeting(m, resp, meetings, running)
    IN /\ meetings' = r.meetings
       /\ running' = r.running
       /\ WriteStep("create_meeting", <<m>>, r.raised, ~r.raised,
                    Dict("returncode", resp),
                    IF r.raised THEN <<>> ELSE BbbPatterns[m])
       /\ UNCHANGED <<envVars, f, rtmp, users, events, channels>>

\* BBBServiceCached.end_meeting
end_meeting(m, resp) ==
    LET r == plain_end_meeting(m, resp, meetings, running)
    IN /\ meetings' = r.meetings
       /\ running' = r.running
       /\ WriteStep("end_meeting", <<m>>, r.raised, resp = "SUCCESS",
                    Dict("returncode", resp),
                    IF r.raised THEN <<>> ELSE BbbPatterns[m])
       /\ UNCHANGED <<envVars, f, rtmp, users, events, channels>>

\* BBBServiceCached.update_meeting_status
update_meeting_status(m, is_ended, resp) ==
    LET r == plain_update_meeting_status(m, is_ended, resp, meetings)
    IN /\ meetings' = r.meetings
       /\ WriteStep("update_meeting_status", <<m>>, FALSE, r.success,
                    Dict("success", r.success), BbbPatterns[m])
       /\ UNCHANGED <<envVars, f, rtmp, users, events, channels, running>>

MeetingInfoKey ==
    [m \in MeetingIds |->
        CacheKey("bbb:meeting_info", "get_meeting_info_cached",
                 <<SelfStr, RequestStr(m)>>, <<>>)]

RecordingsKey ==
    [m \in MeetingIds |->
        CacheKey("bbb:recordings", "get_recordings_cached",
                 <<SelfStr, RequestStr(m)>>, <<>>)]

MeetingsKey == CacheKey("bbb:meetings", "get_meetings_cached", <<SelfStr>>, <<>>)

\* getMeetingInfo: the server knows the meetings that run
get_meeting_info_cached(m, http) ==
    /\ ReadStep("get_meeting_info_cached", <<m>>, MeetingInfoKey[m], http,
                Dict("returncode", IF m \in running THEN "SUCCESS" ELSE "FAILED"),
                cache_ttl_bbb)
    /\ UNCHANGED <<envVars, f, dbVars>>

\* a read of recordings that keeps them as long as an event listing
get_recordings_cached_long(m, http) ==
    /\ ReadStep("get_recordings_cached", <<m>>, RecordingsKey[m], http,
                Dict("recordings", meetings[m] # "none" /\ m \notin running),
                cache_ttl_long)
    /\ UNCHANGED <<envVars, f, dbVars>>

\* getRecordings: a meeting that was held and runs no more has a recording
get_recordings_cached(m, http) ==
    /\ ReadStep("get_recordings_cached", <<m>>, RecordingsKey[m], http,
                Dict("recordings", meetings[m] # "none" /\ m \notin running),
                cache_ttl_medium)
    /\ UNCHANGED <<envVars, f, dbVars>>

get_meetings_cached(http) ==
    /\ ReadStep("get_meetings_cached", <<0>>, MeetingsKey, http,
                Dict("meetings", running), cache_ttl_bbb)
    /\ UNCHANGED <<envVars, f, dbVars>>

InitEvents ==
    /\ store = <<>>
    /\ last = NoOp
    /\ f = [a \in Args |-> None]
    /\ InitDb
    /\ conn = Connected

NextEvents ==
    \/ \E u \in Users, t \in Titles : create_event(u, t)
    \/ \E e \in EventIds, u \in Users :
         \E r \in StartAnswers(e, u) : start_event(e, u, r)
    \/ \E e \in EventIds, u \in Users :
         \E r \in EndEventAnswers(e, u) : end_event(e, u, r)
    \/ \E e \in EventIds, u \in Users, t \in Titles : update_event(e, u, t)
    \/ \E e \in EventIds, u \in Users : delete_event(e, u)
    \/ \E e \in EventIds : get_event_by_id(e)
    \/ \E u \in Users : get_upcoming_events(u)
    \/ \E u \in Users : get_live_events(u)
    \/ \E u \in Users : get_past_events(u)

SpecEvents == InitEvents /\ [][NextEvents]_vars

NextLifecycle ==
    \/ \E u \in Users, t \in Titles : create_event(u, t)
    \/ \E e \in EventIds, u \in Users :
         \E r \in StartAnswers(e, u) : start_event(e, u, r)
    \/ \E e \in EventIds, u \in Users :
         \E r \in EndEventAnswers(e, u) : end_event(e, u, r)
    \/ \E u \in Users : get_upcoming_events(u)
    \/ \E u \in Users : get_live_events(u)
    \/ \E u \in Users : get_past_events(u)

SpecLifecycle == InitEvents /\ [][NextLifecycle]_vars

NextCallback ==
    \/ \E u \in Users, t \in Titles : create_event(u, t)
    \/ \E e \in EventIds, u \in Users :
         \E r \in StartAnswers(e, u) : start_event(e, u, r)
    \/ \E e \in EventIds, u \in Users :
         \E r \in EndEventAnswers(e, u) : end_event(e, u, r)
    \/ \E e \in EventIds : get_event_by_id(e)
    \/ \E m \in MeetingIds, http \in BOOLEAN : is_meeting_running_cached(m, http)
    \/ \E m \in MeetingIds, e \in EventIds \cup {0} :
         \E r \in EndAnswers(e, running) : meeting_ended_callback(m, e, r)

SpecCallback == InitEvents /\ [][NextCallback]_vars

\* every operation that writes an event, and the BBB writes on its meeting
NextStatus ==
    \/ \E u \in Users, t \in Titles : create_event(u, t)
    \/ \E e \in EventIds, u \in Users :
         \E r \in StartAnswers(e, u) : start_event(e, u, r)
    \/ \E e \in EventIds, u \in Users :
         \E r \in EndEventAnswers(e, u) : end_event(e, u, r)
    \/ \E e \in EventIds, u \in Users, t \in Titles : update_event(e, u, t)
    \/ \E e \in EventIds, u \in Users : delete_event(e, u)
    \/ \E m \in MeetingIds, e \in EventIds \cup {0} :
         \E r \in EndAnswers(e, running) : meeting_ended_callback(m, e, r)
    \/ \E m \in MeetingIds : \E r \in EndAnswers(m, running) : end_meeting(m, r)
    \/ \E m \in MeetingIds, is_ended \in BOOLEAN, r \in {"SUCCESS", "HTTP"} :
         update_meeting_status(m, is_ended, r)

SpecStatus == InitEvents /\ [][NextStatus]_vars

(* -------------------------------------------- RtmpEndpointServiceCached *)
RtmpItem(rt, r) == <<r, rt[r].owner, rt[r].title>>

\* RtmpEndpointService.get_all_rtmp_endpoints
RtmpAll(rt) == ListOf({RtmpItem(rt, r) : r \in {x \in RtmpIds : rt[x].owner # 0}})

\* RtmpEndpointService.get_rtmp_endpoints_by_user_id
RtmpByUser(rt, u) ==
    ListOf({RtmpItem(rt, r) : r \in {x \in RtmpIds : rt[x].owner = u}})

\* RtmpEndpointService.get_rtmp_endpoints_by_id
RtmpById(rt, r) == IF rt[r].owner # 0 THEN Obj("rtmp", RtmpItem(rt, r)) ELSE None

\* an invalidation that forgets the lists by user
rtmp_invalidate_without_user ==
    <<PrefixPattern("rtmp_all"), PrefixPattern("rtmp_by_id")>>

\* RtmpEndpointServiceCached._invalidate_after_change
rtmp_invalidate_after_change ==
    <<PrefixPattern("rtmp_all"), PrefixPattern("rtmp_by_id"),
      PrefixPattern("rtmp_user")>>

\* the key of rtmp_service.get_all_rtmp_endpoints(db=db)
RtmpAllKey ==
    CacheKeyDb("rtmp_all", "get_all_rtmp_endpoints", <<SelfStr>>,
               <<<<"db", DbStr(0)>>>>)

\* the key of rtmp_service.get_rtmp_endpoints_by_user_id(user_id=..., db=db)
RtmpUserKey ==
    [u \in Users |->
        CacheKeyDb("rtmp_user", "get_rtmp_endpoints_by_user_id", <<SelfStr>>,
                   <<<<"db", DbStr(0)>>, <<"user_id", UuidStr(u)>>>>)]

\* the key of rtmp_service.get_rtmp_endpoints_by_id(rtmp_endpoints_id=..., db=db)
RtmpByIdKey ==
    [r \in RtmpIds |->
        CacheKeyDb("rtmp_by_id", "get_rtmp_endpoints_by_id", <<SelfStr>>,
                   <<<<"db", DbStr(0)>>, <<"rtmp_endpoints_id", UuidStr(r)>>>>)]

rtmpFrame == <<conn, proc, f, events, channels, meetings, running, users>>

get_all_rtmp_endpoints ==
    /\ ReadStep("get_all_rtmp_endpoints", <<0>>, RtmpAllKey, FALSE,
                RtmpAll(rtmp), cache_ttl_long)
    /\ UNCHANGED <<envVars, f, dbVars>>

get_rtmp_endpoints_by_user_id(u) ==
    /\ ReadStep("get_rtmp_endpoints_by_user_id", <<u>>, RtmpUserKey[u], FALSE,
                RtmpByUser(rtmp, u), cache_ttl_long)
    /\ UNCHANGED <<envVars, f, dbVars>>

get_rtmp_endpoints_by_id(r) ==
    /\ ReadStep("get_rtmp_endpoints_by_id", <<r>>, RtmpByIdKey[r], FALSE,
                RtmpById(rtmp, r), cache_ttl_long)
    /\ UNCHANGED <<envVars, f, dbVars>>

\* create: the insert fails on a stream key that is taken (IntegrityError,
\* raised as ValueError before the invalidation)
create_rtmp_endpoints(r, u, t) ==
    LET taken == rtmp[r].owner # 0
    IN /\ rtmp' = IF taken THEN rtmp
                  ELSE [rtmp EXCEPT ![r] = [owner |-> u, title |-> t]]
       /\ WriteStep("create_rtmp_endpoints", <<u, r>>, taken, ~taken,
                    IF taken THEN None ELSE Obj("rtmp", <<r, u, t>>),
                    IF taken THEN <<>> ELSE rtmp_invalidate_after_change)
       /\ UNCHANGED rtmpFrame

\* update: None when the row is missing; the invalidation runs either way
update_rtmp_endpoints(r, t) ==
    LET found == rtmp[r].owner # 0
        after == IF found THEN [rtmp EXCEPT ![r].title = t] ELSE rtmp
    IN /\ rtmp' = after
       /\ WriteStep("update_rtmp_endpoints", <<rtmp[r].owner, r>>, FALSE, found,
                    RtmpById(after, r), rtmp_invalidate_after_change)
       /\ UNCHANGED rtmpFrame

\* delete: None when the row is missing or owned by another user; the
\* invalidation runs either way
delete_rtmp_endpoints(r, u) ==
    LET found == rtmp[r].owner # 0 /\ rtmp[r].owner = u
    IN /\ rtmp' = IF found THEN [rtmp EXCEPT ![r] = NoEndpoint] ELSE rtmp
       /\ WriteStep("delete_rtmp_endpoints", <<u, r>>, FALSE, found,
                    IF found THEN Dict("id", r) ELSE None,
                    rtmp_invalidate_after_change)
       /\ UNCHANGED rtmpFrame

NextRtmp ==
    \/ \E r \in RtmpIds, u \in Users, t \in Titles : create_rtmp_endpoints(r, u, t)
    \/ \E r \in RtmpIds, t \in Titles : update_rtmp_endpoints(r, t)
    \/ \E r \in RtmpIds, u \in Users : delete_rtmp_endpoints(r, u)
    \/ get_all_rtmp_endpoints
    \/ \E u \in Users : get_rtmp_endpoints_by_user_id(u)
    \/ \E r \in RtmpIds : get_rtmp_endpoints_by_id(r)

SpecRtmp == InitEvents /\ [][NextRtmp]_vars

(* ----------------------------------------------------- UserServiceCached *)
\* the keycloak id of user u, a UUID of its own
KeycloakStr(u) == <<Hex[u + 9], "-", Hex[u + 9]>>

UserObj(us, u) == Obj("user", <<u, us[u].name, us[u].roles>>)

\* User.get_roles_list of a loaded user
RolesOf(user) == ListOf({<<row[3]>> : row \in user.items})

UsersList(us) == ListOf({<<u, us[u].name, us[u].roles>> : u \in Users})

\* the keys of get_user_by_id_cached(user_id, db),
\* get_user_by_keycloak_id_cached(keycloak_id, db),
\* get_user_roles_cached(user_id, db) and get_users_list_cached(0, 10, db)
UserProfileKey ==
    [u \in Users |->
        CacheKeyDb("user_profile", "get_user_by_id_cached",
                   <<SelfStr, UuidStr(u), DbStr(0)>>, <<>>)]

UserKeycloakKey ==
    [u \in Users |->
        CacheKeyDb("user_keycloak", "get_user_by_keycloak_id_cached",
                   <<SelfStr, KeycloakStr(u), DbStr(0)>>, <<>>)]

UserRolesKey ==
    [u \in Users |->
        CacheKeyDb("user_roles", "get_user_roles_cached",
                   <<SelfStr, UuidStr(u), DbStr(0)>>, <<>>)]

UsersListKey ==
    CacheKeyDb("users_list", "get_users_list_cached",
               <<SelfStr, <<"0">>, <<"1", "0">>, DbStr(0)>>, <<>>)

\* UserServiceCached.invalidate_user_cache
user_invalidate(u, known) ==
    <<IdPattern("user_profile", UuidStr(u)), IdPattern("user_roles", UuidStr(u))>>
    \o (IF known THEN <<IdPattern("user_keycloak", KeycloakStr(u))>> ELSE <<>>)
    \o <<PrefixPattern("users_list")>>

UserPatterns == [u \in Users |-> user_invalidate(u, TRUE)]

usersFrame == <<conn, proc, f, events, channels, meetings, running, rtmp>>

get_user_by_id_cached(u) ==
    /\ ReadStep("get_user_by_id_cached", <<u>>, UserProfileKey[u], FALSE,
                UserObj(users, u), cache_ttl_user)
    /\ UNCHANGED <<envVars, f, dbVars>>

get_user_by_keycloak_id_cached(u) ==
    /\ ReadStep("get_user_by_keycloak_id_cached", <<u>>, UserKeycloakKey[u],
                FALSE, UserObj(users, u), cache_ttl_user)
    /\ UNCHANGED <<envVars, f, dbVars>>

\* get_user_roles_cached: on a miss the user is loaded with
\* get_user_by_id_cached, itself a cached read, and the roles of what it
\* returned are stored
get_user_roles_cached(u) ==
    LET hit == CachedHit(store, UserRolesKey[u])
        user == CachedResult(store, UserProfileKey[u], UserObj(users, u))
        loaded == CachedStore(store, UserProfileKey[u], UserObj(users, u),
                              cache_ttl_user)
        res == IF hit THEN CacheGet(store, UserRolesKey[u]) ELSE RolesOf(user)
    IN /\ store' = IF hit THEN store
                   ELSE CacheSet(loaded, UserRolesKey[u], res, cache_ttl_long)
       /\ last' = [op |-> "get_user_roles_cached", arg |-> <<u>>, res |-> res,
                   invoked |-> ~hit, raised |-> FALSE, ok |-> TRUE,
                   stale |-> res # RolesOf(UserObj(users, u)),
                   sweeps |-> <<>>, dropped |-> 0,
                   again |-> last.op = "get_user_roles_cached" /\ last.arg = <<u>>]
       /\ UNCHANGED <<envVars, f, dbVars>>

get_users_list_cached ==
    /\ ReadStep("get_users_list_cached", <<0>>, UsersListKey, FALSE,
                UsersList(users), cache_ttl_long)
    /\ UNCHANGED <<envVars, f, dbVars>>

\* the tail of update_user_profile and update_user_role: after the commit
\* the user is loaded with get_user_by_id_cached, then the caches of the
\* user are invalidated, then what was loaded is returned
UpdateUser(op, u, after) ==
    LET user == CachedResult(store, UserProfileKey[u], UserObj(after, u))
        loaded == CachedStore(store, UserProfileKey[u], UserObj(after, u),
                              cache_ttl_user)
        swept == DeletePatterns(loaded, UserPatterns[u])
    IN /\ users' = after
       /\ store' = swept
       /\ last' = [op |-> op, arg |-> <<u>>, res |-> user, invoked |-> TRUE,
                   raised |-> FALSE, ok |-> TRUE,
                   stale |-> user # UserObj(after, u),
                   sweeps |-> UserPatterns[u],
                   dropped |-> Cardinality(DOMAIN loaded)
                               - Cardinality(DOMAIN swept),
                   again |-> FALSE]
       /\ UNCHANGED usersFrame

update_user_profile(u, name) ==
    UpdateUser("update_user_profile", u, [users EXCEPT ![u].name = name])

update_user_role(u, role) ==
    UpdateUser("update_user_role", u, [users EXCEPT ![u].roles = role])

invalidate_user_cache(u, known) ==
    /\ WriteStep("invalidate_user_cache", <<u>>, FALSE, TRUE, None,
                 user_invalidate(u, known))
    /\ UNCHANGED <<envVars, f, dbVars>>

NextUsers ==
    \/ \E u \in Users : get_user_by_id_cached(u)
    \/ \E u \in Users : get_user_by_keycloak_id_cached(u)
    \/ \E u \in Users : get_user_roles_cached(u)
    \/ get_users_list_cached
    \/ \E u \in Users, name \in Names : update_user_profile(u, name)
    \/ \E u \in Users, role \in Roles : update_user_role(u, role)
    \/ \E u \in Users, known \in BOOLEAN : invalidate_user_cache(u, known)

SpecUsers == InitEvents /\ [][NextUsers]_vars

NextBbb ==
    \/ \E m \in MeetingIds, r \in Responses : create_meeting(m, r)
    \/ \E m \in MeetingIds : \E r \in EndAnswers(m, running) : end_meeting(m, r)
    \/ \E m \in MeetingIds, is_ended \in BOOLEAN, r \in {"SUCCESS", "HTTP"} :
         update_meeting_status(m, is_ended, r)
    \/ \E m \in MeetingIds : meeting_ended_callback(m, 0, "FAILED")
    \/ \E m \in MeetingIds, http \in BOOLEAN : is_meeting_running_cached(m, http)
    \/ \E m \in MeetingIds, http \in BOOLEAN : get_meeting_info_cached(m, http)
    \/ \E m \in MeetingIds, http \in BOOLEAN : get_recordings_cached(m, http)
    \/ \E http \in BOOLEAN : get_meetings_cached(http)

SpecBbb == InitEvents /\ [][NextBbb]_vars

(* ------------------------------------------------ ChannelsServiceCached *)
\* str(channel.id)
ChannelStr(c) == UuidStr(c + 4)

\* a channel that was deleted; its id is never given again
GoneChannel == [name |-> "", creator |-> -1]

HasChannel(ch, c) == ch[c].creator \in Users

\* _create_channel_response
ChannelItem(ch, c) == <<c, ch[c].name, ch[c].creator>>

\* ChannelsService.get_channels and get_channels_by_user_id
ChannelsOf(ch, owners) ==
    ListOf({ChannelItem(ch, c) :
              c \in {x \in ChannelIds : HasChannel(ch, x) /\ ch[x].creator \in owners}})

\* ChannelsService.get_channel_by_id
ChannelById(ch, c) ==
    IF HasChannel(ch, c) THEN Obj("channel", ChannelItem(ch, c)) ELSE None

\* ChannelsService.get_channel_by_name: scalar_one_or_none gives the row,
\* None, or MultipleResultsFound
ChannelByName(ch, n, u) ==
    LET named == ChannelsNamed(ch, u, n)
    IN IF named = {} THEN None
       ELSE IF Cardinality(named) > 1 THEN Raises
       ELSE Obj("channel", ChannelItem(ch, CHOOSE c \in named : TRUE))

\* the recordings of the events of channel c that have a meeting
ChannelRecordings(ev, c) ==
    Dict("recordings", {e \in EventIds : Exists(ev, e) /\ ev[e].channel = c
                                         /\ ev[e].mc})

\* the keys of the reads as the controller calls them, with keywords;
\* get_channel_by_name is given its arguments by position
ChannelsAllKey ==
    CacheKeyDb("channels_all", "get_channels", <<SelfStr>>,
               <<<<"db", DbStr(0)>>>>)

ChannelsUserKey ==
    [u \in Users |->
        CacheKeyDb("channels_user", "get_channels_by_user_id", <<SelfStr>>,
                   <<<<"user_id", UuidStr(u)>>, <<"db", DbStr(0)>>>>)]

ChannelByIdKey ==
    [c \in ChannelIds |->
        CacheKeyDb("channels_by_id", "get_channel_by_id", <<SelfStr>>,
                   <<<<"channel_id", ChannelStr(c)>>, <<"db", DbStr(0)>>>>)]

ChannelByNameKey ==
    [n \in ChannelNames, u \in Users |->
        CacheKeyDb("channels_by_name", "get_channel_by_name",
                   <<SelfStr, DbStr(0), <<n>>, UuidStr(u)>>, <<>>)]

ChannelRecordingsKey ==
    [c \in ChannelIds, u \in Users |->
        CacheKeyDb("channels_recordings", "get_channel_recordings", <<SelfStr>>,
                   <<<<"db", DbStr(0)>>, <<"channel_id", ChannelStr(c)>>,
                     <<"user_id", UuidStr(u)>>>>)]

\* an invalidation that forgets the recordings
channels_invalidate_without_recordings ==
    <<PrefixPattern("channels_all"), PrefixPattern("channels_user"),
      PrefixPattern("channels_by_id"), PrefixPattern("channels_by_name")>>

\* ChannelsServiceCached._invalidate_after_change
channels_invalidate_after_change ==
    <<PrefixPattern("channels_all"), PrefixPattern("channels_user"),
      PrefixPattern("channels_by_id"), PrefixPattern("channels_by_name"),
      PrefixPattern("channels_recordings")>>

get_channels ==
    /\ ReadStep("get_channels", <<>>, ChannelsAllKey, FALSE,
                ChannelsOf(channels, Users), cache_ttl_medium)
    /\ UNCHANGED <<envVars, f, dbVars>>

get_channels_by_user_id(u) ==
    /\ ReadStep("get_channels_by_user_id", <<u>>, ChannelsUserKey[u], FALSE,
                ChannelsOf(channels, {u}), cache_ttl_medium)
    /\ UNCHANGED <<envVars, f, dbVars>>

get_channel_by_id(c) ==
    /\ ReadStep("get_channel_by_id", <<c>>, ChannelByIdKey[c], FALSE,
                ChannelById(channels, c), cache_ttl_medium)
    /\ UNCHANGED <<envVars, f, dbVars>>

get_channel_by_name(n, u) ==
    LET found == ChannelByName(channels, n, u)
    IN /\ ReadStep("get_channel_by_name", <<n, u>>, ChannelByNameKey[n, u],
                   found = Raises, found, cache_ttl_medium)
       /\ UNCHANGED <<envVars, f, dbVars>>

\* get_channel_recordings: on a miss the channel is loaded with
\* self.get_channel_by_id, the cached read of this class; a missing channel
\* or one of another user is a ValueError
get_channel_recordings(c, u) ==
    LET hit == CachedHit(store, ChannelRecordingsKey[c, u])
        chan == CachedResult(store, ChannelByIdKey[c], ChannelById(channels, c))
        loaded == CachedStore(store, ChannelByIdKey[c], ChannelById(channels, c),
                              cache_ttl_medium)
        raises == chan = None \/ \E row \in chan.items : row[3] # u
        computed == ChannelRecordings(events, c)
        res == IF hit THEN CacheGet(store, ChannelRecordingsKey[c, u])
               ELSE IF raises THEN None ELSE computed
    IN /\ store' = IF hit THEN store
                   ELSE IF raises THEN loaded
                   ELSE CacheSet(loaded, ChannelRecordingsKey[c, u], computed,
                                 cache_ttl_short)
       /\ last' = [op |-> "get_channel_recordings", arg |-> <<c, u>>,
                   res |-> res, invoked |-> ~hit, raised |-> ~hit /\ raises,
                   ok |-> hit \/ ~raises,
                   stale |-> hit /\ (~HasChannel(channels, c) \/ res # computed),
                   sweeps |-> <<>>, dropped |-> 0,
                   again |-> /\ last.op = "get_channel_recordings"
                             /\ last.arg = <<c, u>>]
       /\ UNCHANGED <<envVars, f, dbVars>>

\* create_channel: the commit either fails, and the exception leaves before
\* the invalidation, or adds the row
create_channel(n, u, committed) ==
    /\ \E c \in ChannelIds : channels[c] = NoChannel
    /\ channels' = IF committed THEN plain_create_channel(channels, u, n)
                   ELSE channels
    /\ WriteStep("create_channel", <<NewChannelId(channels), u>>, ~committed,
                 committed,
                 IF committed
                 THEN Obj("channel", <<NewChannelId(channels), n, u>>) ELSE None,
                 IF committed THEN channels_invalidate_after_change ELSE <<>>)
    /\ UNCHANGED <<envVars, f, events, meetings, running, rtmp, users>>

\* update_channel: None for a channel that is missing or of another user;
\* the invalidation follows in both cases
update_channel(c, n, u) ==
    LET found == HasChannel(channels, c) /\ channels[c].creator = u
    IN /\ channels' = IF found THEN [channels EXCEPT ![c].name = n] ELSE channels
       /\ WriteStep("update_channel", <<c, u>>, FALSE, found,
                    IF found THEN Obj("channel", <<c, n, u>>) ELSE None,
                    channels_invalidate_after_change)
       /\ UNCHANGED <<envVars, f, events, meetings, running, rtmp, users>>

\* the events of channel c go with it: ondelete CASCADE of Event.channel_id
Cascade(ev, c) ==
    [e \in EventIds |-> IF Exists(ev, e) /\ ev[e].channel = c
                        THEN [NoEvent EXCEPT !.status = "deleted"] ELSE ev[e]]

\* delete_channel: False for a channel that is missing or of another user;
\* the invalidation follows in both cases
delete_channel(c, u) ==
    LET found == HasChannel(channels, c) /\ channels[c].creator = u
    IN /\ channels' = IF found THEN [channels EXCEPT ![c] = GoneChannel]
                      ELSE channels
       /\ events' = IF found THEN Cascade(events, c) ELSE events
       /\ WriteStep("delete_channel", <<c, u>>, FALSE, found, Bool(found),
                    channels_invalidate_after_change)
       /\ UNCHANGED <<envVars, f, meetings, running, rtmp, users>>

\* the user the requests are authenticated as
CurrentUser == CHOOSE u \in Users : \A v \in Users : u <= v

NextChannels ==
    \/ get_channels
    \/ get_channels_by_user_id(CurrentUser)
    \/ \E c \in ChannelIds : get_channel_by_id(c)
    \/ get_channel_by_name(EventChannel, CurrentUser)
    \/ \E c \in ChannelIds : get_channel_recordings(c, CurrentUser)
    \/ \E n \in ChannelNames, committed \in BOOLEAN :
         create_channel(n, CurrentUser, committed)
    \/ \E c \in ChannelIds, n \in ChannelNames : update_channel(c, n, CurrentUser)
    \/ \E c \in ChannelIds : delete_channel(c, CurrentUser)

SpecChannels == InitEvents /\ [][NextChannels]_vars

(* -------------------------------------------- channels and their events *)
NextCross ==
    \/ get_channels
    \/ \E u \in Users : get_channels_by_user_id(u)
    \/ \E c \in ChannelIds : get_channel_by_id(c)
    \/ \E u \in Users, t \in Titles : create_event(u, t)
    \/ \E c \in ChannelIds, u \in Users : delete_channel(c, u)
    \/ \E e \in EventIds : get_event_by_id(e)
    \/ \E u \in Users : get_upcoming_events(u)

SpecCross == InitEvents /\ [][NextCross]_vars

(* ------------------------------------------- two create_event calls *)
\* a request that has not reached create_event yet
NotCalled == [pc |-> "idle", u |-> 0, t |-> 0, ch |-> 0, made |-> FALSE,
              answer |-> 0]

InitCreate ==
    /\ store = <<>>
    /\ last = NoOp
    /\ f = [a \in Args |-> None]
    /\ proc = [i \in Callers |-> NotCalled]
    /\ InitTables
    /\ conn = Connected

\* what the handler answers and what the call leaves in last
Answered(i, status, sweeps) ==
    /\ proc' = [proc EXCEPT ![i].pc = "done", ![i].answer = status]
    /\ WriteStep("create_event", <<i, proc[i].t>>, status # 200, status = 200,
                 Obj("http", <<status>>), sweeps)

\* create_event of caller i up to the title check: a title that exists is a
\* ValueError, which the handler answers with 400
CreateCheckTitle(i, u, t) ==
    /\ proc[i].pc = "idle"
    /\ IF \E x \in EventIds : Exists(events, x) /\ events[x].title = t
       THEN Answered(i, 400, <<>>)
       ELSE /\ proc' = [proc EXCEPT ![i] = [NotCalled EXCEPT
                                  !.pc = "channel", !.u = u, !.t = t]]
            /\ last' = [NoOp EXCEPT !.op = "check_title", !.arg = <<i, t>>]
            /\ store' = store
    /\ UNCHANGED <<conn, f, dbVars>>

\* _get_or_create_channel up to the answer of get_channel_by_name
CreateGetChannel(i) ==
    LET found == ChannelByName(channels, EventChannel, proc[i].u)
    IN /\ proc[i].pc = "channel"
       /\ IF found = Raises THEN Answered(i, 500, <<>>)
          ELSE /\ proc' = IF found = None
                          THEN [proc EXCEPT ![i].pc = "create_channel"]
                          ELSE [proc EXCEPT ![i].pc = "insert",
                                  ![i].ch = CHOOSE c \in ChannelsNamed(channels,
                                               proc[i].u, EventChannel) : TRUE]
               /\ last' = [NoOp EXCEPT !.op = "get_channel", !.arg = <<i>>]
               /\ store' = store
       /\ UNCHANGED <<conn, f, dbVars>>

\* ChannelsService.create_channel, committed
CreateChannel(i) ==
    /\ proc[i].pc = "create_channel"
    /\ \E c \in ChannelIds : channels[c] = NoChannel
    /\ channels' = plain_create_channel(channels, proc[i].u, EventChannel)
    /\ proc' = [proc EXCEPT ![i].pc = "insert", ![i].made = TRUE,
                            ![i].ch = NewChannelId(channels)]
    /\ last' = [NoOp EXCEPT !.op = "create_channel", !.arg = <<i>>]
    /\ UNCHANGED <<store, conn, f, events, meetings, running, rtmp, users>>

\* db.add, flush and commit of the event, then the invalidation of
\* EventServiceCached; the unique constraint on Event.title makes the flush
\* of a second event with the title an IntegrityError, answered with 500
CreateInsert(i) ==
    /\ proc[i].pc = "insert"
    /\ IF \E x \in EventIds : Exists(events, x) /\ events[x].title = proc[i].t
       THEN /\ Answered(i, 500, <<>>)
            /\ events' = events
       ELSE /\ \E e \in EventIds : events[e].status = "none"
            /\ events' = [events EXCEPT ![NewEventId] =
                            [status |-> "scheduled", title |-> proc[i].t,
                             creator |-> proc[i].u, mc |-> FALSE,
                             channel |-> proc[i].ch]]
            /\ Answered(i, 200, EventPatterns[NewEventId])
    /\ UNCHANGED <<conn, f, channels, meetings, running, rtmp, users>>

NextCreate ==
    \/ \E i \in Callers, u \in Users, t \in Titles : CreateCheckTitle(i, u, t)
    \/ \E i \in Callers : CreateGetChannel(i)
    \/ \E i \in Callers : CreateChannel(i)
    \/ \E i \in Callers : CreateInsert(i)
    \/ \E u \in Users : get_upcoming_events(u)
    \/ get_channels

SpecCreate == InitCreate /\ [][NextCreate]_vars

(* ------------------------------------------------ one read of every tier *)
NextTtl ==
    \/ get_user_by_id_cached(CurrentUser)
    \/ get_user_roles_cached(CurrentUser)
    \/ \E m \in MeetingIds, http \in BOOLEAN : is_meeting_running_cached(m, http)
    \/ \E m \in MeetingIds : get_meeting_info_cached(m, FALSE)
    \/ \E m \in MeetingIds : get_recordings_cached(m, FALSE)
    \/ get_channels
    \/ get_upcoming_events(CurrentUser)
    \/ get_all_rtmp_endpoints

SpecTtl == InitEvents /\ [][NextTtl]_vars

(* -------------------------------------------- two start_event calls *)
\* a request that has not reached start_event yet
NotStarted == [pc |-> "idle", e |-> 0, u |-> 0, created |-> FALSE,
               raised |-> FALSE]

InitStart ==
    /\ store = <<>>
    /\ last = NoOp
    /\ f = [a \in Args |-> None]
    /\ proc = [i \in Callers |-> NotStarted]
    /\ InitTables
    /\ conn = Connected

\* start_event of caller i up to the answer of the select: no such event of
\* the user is a ValueError; an event whose meeting_created is set goes on
\* to the join URL, and EventServiceCached invalidates
StartSelect(i, e, u) ==
    LET found == Exists(events, e) /\ events[e].creator = u
    IN /\ proc[i].pc = "idle"
       /\ IF found /\ ~events[e].mc
          THEN /\ proc' = [proc EXCEPT ![i] = [NotStarted EXCEPT
                                      !.pc = "create", !.e = e, !.u = u]]
               /\ last' = [NoOp EXCEPT !.op = "select", !.arg = <<i, e>>]
               /\ store' = store
          ELSE /\ proc' = [proc EXCEPT ![i] = [NotStarted EXCEPT
                                      !.pc = "done", !.e = e, !.u = u,
                                      !.raised = ~found]]
               /\ WriteStep("start_event", <<e, u>>, ~found, found, None,
                            IF found THEN EventPatterns[e] ELSE <<>>)
       /\ UNCHANGED <<conn, f, dbVars>>

\* BBBService.create_meeting of caller i: the create call, HTTPException
\* unless SUCCESS, then the insert of the meeting row, which the unique
\* meeting_id refuses when the row is there
StartCreateMeeting(i, resp) ==
    LET e == proc[i].e
        stored == resp = "SUCCESS" /\ meetings[e] = "none"
    IN /\ proc[i].pc = "create"
       /\ running' = IF resp = "SUCCESS" THEN running \cup {e} ELSE running
       /\ meetings' = IF stored THEN [meetings EXCEPT ![e] = "open"] ELSE meetings
       /\ proc' = [proc EXCEPT ![i].pc = IF stored THEN "commit" ELSE "done",
                               ![i].created = resp = "SUCCESS",
                               ![i].raised = ~stored]
       /\ IF stored
          THEN /\ last' = [NoOp EXCEPT !.op = "create_meeting", !.arg = <<i, e>>]
               /\ store' = store
          ELSE WriteStep("start_event", <<e, proc[i].u>>, TRUE, FALSE, None, <<>>)
       /\ UNCHANGED <<conn, f, events, channels, rtmp, users>>

\* meeting_created = True, status LIVE, commit; then the invalidation of
\* EventServiceCached
StartCommit(i) ==
    LET e == proc[i].e
    IN /\ proc[i].pc = "commit"
       /\ events' = [events EXCEPT ![e].mc = TRUE, ![e].status = "live"]
       /\ proc' = [proc EXCEPT ![i].pc = "done"]
       /\ WriteStep("start_event", <<e, proc[i].u>>, FALSE, TRUE, None,
                    EventPatterns[e])
       /\ UNCHANGED <<conn, f, channels, meetings, running, rtmp, users>>

NextStart ==
    \/ \E u \in Users, t \in Titles : create_event(u, t)
    \/ \E i \in Callers, e \in EventIds, u \in Users : StartSelect(i, e, u)
    \/ \E i \in Callers, resp \in Responses : StartCreateMeeting(i, resp)
    \/ \E i \in Callers : StartCommit(i)
    \/ \E e \in EventIds : get_event_by_id(e)
    \/ \E u \in Users : get_live_events(u)

SpecStart == InitStart /\ [][NextStart]_vars

(* ------------------------------------------------------------------ C1 *)
TwoCallsSameArgs == last.op = "call" /\ last'.op = "call" /\ last'.arg = last.arg

EventIdWrites == {"start_event", "end_event", "update_event", "delete_event"}

\* C2: once start_event, end_event, update_event or delete_event on event E
\* has succeeded, the store holds no events_by_id entry for E, so the next
\* get_event_by_id(E) cannot return a value cached before the write.
ByIdEntryDeleted ==
    (last.op \in EventIdWrites /\ last.ok) =>
        EventByIdKey[last.arg[1]] \notin DOMAIN store

(* ------------------------------------------------------------------ C3 *)
Transitions == {"create_event", "start_event", "end_event"}

ListStatus == [get_upcoming_events |-> "scheduled",
               get_live_events |-> "live",
               get_past_events |-> "ended"]

InList(res, e) == \E it \in res.items : it[1] = e

RtmpWrites == {"create_rtmp_endpoints", "update_rtmp_endpoints",
               "delete_rtmp_endpoints"}

RtmpPrefixes == {"rtmp_all", "rtmp_by_id", "rtmp_user"}

\* C4: the list of a user's endpoints read right after a create, update or
\* delete is computed again and is exactly the endpoints the user has; the
\* same read repeated is served from the cache with the same list; and once
\* a create, update or delete has returned, no entry under rtmp_all,
\* rtmp_by_id or rtmp_user is left in the store.
RtmpListFresh ==
    [][/\ (/\ last.op \in RtmpWrites
           /\ ~last.raised
           /\ last'.op = "get_rtmp_endpoints_by_user_id") =>
              (last'.invoked /\ last'.res = RtmpByUser(rtmp', last'.arg[1]))
       /\ (/\ last.op = "get_rtmp_endpoints_by_user_id"
           /\ last'.op = "get_rtmp_endpoints_by_user_id"
           /\ last'.arg = last.arg) =>
              (~last'.invoked /\ last'.res = last.res)
       /\ (last'.op \in RtmpWrites /\ ~last'.raised) =>
              \A k \in DOMAIN store' : k[1] \notin RtmpPrefixes]_vars

\* a second endpoint has been created for a user while every RTMP read was
\* cached, and the create swept them all
RtmpListWitness ==
    /\ last.op = "create_rtmp_endpoints"
    /\ last.ok
    /\ Cardinality(RtmpByUser(rtmp, last.arg[1]).items) = 2
    /\ last.dropped = Cardinality(RtmpIds) + Cardinality(Users) + 1
    /\ store = <<>>

(* ------------------------------------------------------------------ C5 *)
BbbWrites == {"create_meeting", "end_meeting", "update_meeting_status",
              "meeting_ended_callback"}

BbbReads == {"is_meeting_running_cached", "get_meeting_info_cached",
             "get_recordings_cached"}

\* C5: once create_meeting, end_meeting, update_meeting_status or
\* meeting_ended_callback of BBBServiceCached has returned for meeting M,
\* the next is_meeting_running_cached, get_meeting_info_cached or
\* get_recordings_cached for M asks the BBB server again.
BbbReadsRecomputed ==
    [][(/\ last.op \in BbbWrites
        /\ ~last.raised
        /\ last'.op \in BbbReads
        /\ last'.arg[1] = last.arg[1]) => last'.invoked]_vars

(* ------------------------------------------------------------------ C6 *)
UserUpdates == {"update_user_profile", "update_user_role"}

\* C6: once update_user_profile or update_user_role has returned for user U
\* with keycloak id K, or invalidate_user_cache(U, K), the store holds no
\* entry from before the write for U under user_profile, user_roles or
\* user_keycloak and none under users_list, so that the next reads go to
\* the database.
UserCachesInvalidated ==
    (last.op \in UserUpdates
       \/ (last.op = "invalidate_user_cache" /\ Len(last.sweeps) = 4)) =>
        LET u == last.arg[1]
        IN /\ UserProfileKey[u] \in DOMAIN store =>
                /\ last.op \in UserUpdates
                /\ CacheGet(store, UserProfileKey[u]) = UserObj(users, u)
           /\ UserRolesKey[u] \notin DOMAIN store
           /\ UserKeycloakKey[u] \notin DOMAIN store
           /\ UsersListKey \notin DOMAIN store

(* ------------------------------------------------------------------ C7 *)
\* the callback for meeting m and event e, taken while e is live
CallbackOnLive(e) ==
    /\ events[e].status = "live"
    /\ last'.op = "meeting_ended_callback"
    /\ last'.arg = <<e, e>>

Swept(patterns, sweeps) ==
    \A i \in DOMAIN patterns : \E j \in DOMAIN sweeps : sweeps[j] = patterns[i]

\* C7: a meeting_ended_callback that carries the id of live event E, whose
\* meeting is M, and reports success issues two sweeps: the BBB patterns of
\* M and the patterns an end_event call of EventServiceCached sweeps for E.
CallbackSweepsEvents ==
    [][\A e \in EventIds :
          (CallbackOnLive(e) /\ last'.ok) =>
              /\ Swept(BbbPatterns[e], last'.sweeps)
              /\ Swept(EventPatterns[e], last'.sweeps)]_vars

(* ------------------------------------------------------------------ C8 *)
\* C8: when meeting_ended_callback(M, event_id = E) returns for a live event
\* E whose meeting is M, E is ended, and the entry a following
\* get_event_by_id(E) would be served from, if there is one, shows E as it
\* is.
CallbackEndsEvent ==
    [][\A e \in EventIds :
          CallbackOnLive(e) =>
              /\ events'[e].status = "ended"
              /\ EventByIdKey[e] \in DOMAIN store' =>
                    CacheGet(store', EventByIdKey[e])
                        = Obj("event", EventItem(events', e))]_vars

(* ------------------------------------------------------------------ C9 *)
\* C9: once end_event of EventServiceCached has ended the running meeting M
\* of event E, the BBB caches of M are invalidated too: no is_running entry
\* for M is left for a following is_meeting_running_cached(M) to be served
\* from.
EndEventSweepsBbb ==
    [][\A e \in EventIds :
          (/\ last'.op = "end_event"
           /\ last'.arg[1] = e
           /\ last'.ok
           /\ e \in running
           /\ e \notin running') =>
              IsRunningKey[e] \notin DOMAIN store']_vars

(* ----------------------------------------------------------------- C10 *)
\* C10: a write whose mutation fails, by raising or by reporting failure,
\* issues no delete_pattern call and removes no cache entry.
FailedWriteKeepsCache ==
    (last.op \in BbbWrites /\ ~last.ok) =>
        (last.sweeps = <<>> /\ last.dropped = 0)

(* ----------------------------------------------------------------- C11 *)
\* C11: with the store disabled, or with the get and the set of the call
\* both faulting, a wrapped read invokes the underlying function on every
\* call and returns exactly what it returns (it raises only if the function
\* raises); a write returns the result of its mutation and does not raise,
\* with the store disabled or its delete_pattern faulting.
FaultTolerant ==
    /\ (/\ last.op = "call"
        /\ (conn.client = "none" \/ (last.arg[2] /\ last.arg[3]))) =>
           /\ last.invoked
           /\ last.raised = (f[last.arg[1]] = Raises)
           /\ ~last.raised => last.res = f[last.arg[1]]
    /\ (/\ last.op = "write"
        /\ (conn.client = "none" \/ last.arg[2])) =>
           /\ ~last.raised
           /\ last.res = f[last.arg[1]]

FaultTolerantWitness ==
    /\ last.op = "call"
    /\ last.again
    /\ conn.client = "up"
    /\ last.arg[2] /\ last.arg[3]
    /\ last.invoked
    /\ last.res = ListOf({<<1>>})

(* ----------------------------------------------------------------- C14 *)
\* C14: when the wrapped function raises on a miss, the caller gets the
\* exception, the store is exactly what it was before the call, and a
\* following get for the same key still finds nothing.
ExceptionTransparent ==
    [][\A a \in Args :
          (/\ last'.op = "call"
           /\ last'.arg[1] = a
           /\ last'.invoked
           /\ f[a] = Raises) =>
              /\ last'.raised
              /\ store' = store
              /\ RedisGet(conn, store', ReadKey(a), FALSE).value = None]_vars

ExceptionTransparentWitness ==
    /\ last.op = "call"
    /\ last.arg = <<1, FALSE, FALSE>>
    /\ conn.client = "up"
    /\ last.raised
    /\ last.again
    /\ store # <<>>

(* ----------------------------------------------------------------- C15 *)
\* a fault-free cached call for a on a connected store that holds bytes that
\* do not load under the key of a, the wrapped function returning
Heals(a) ==
    /\ conn.client = "up"
    /\ ReadKey(a) \in DOMAIN store
    /\ ~store[ReadKey(a)].bytes.valid
    /\ f[a] # Raises
    /\ last'.op = "call"
    /\ last'.arg = <<a, FALSE, FALSE>>

Healed(a) ==
    /\ ~last'.raised
    /\ last'.invoked
    /\ last'.res = f[a]
    /\ store'[ReadKey(a)] = Entry(f[a], DefaultTtl)

DisabledAbsorbing ==
    [][(conn.pc = "done" /\ conn.failed = max_retries) =>
          /\ conn.client = "none"
          /\ conn'.client = "none"
          /\ store' = store
          /\ ~last'.raised
          /\ last'.op = "get" => last'.res = None
          /\ last'.op \in {"set", "delete", "delete_pattern", "health_check"}
                => last'.res = Bool(FALSE)]_vars

DisabledAbsorbingWitness ==
    /\ conn.pc = "done"
    /\ conn.failed = max_retries
    /\ last.op = "set"
    /\ last.res = Bool(FALSE)
    /\ store = <<>>

(* ----------------------------------------------------------------- C13 *)
\* the sleeps of a connect() whose attempts all fail
Backoff == <<2, 4, 8, 16>>

ConnectSafe ==
    /\ conn.attempt <= max_retries
    /\ conn.slept = SubSeq(Backoff, 1, Len(conn.slept))
    /\ conn.pc = "connecting" =>
          /\ conn.attempt < max_retries
          /\ conn.failed = conn.attempt
          /\ Len(conn.slept) = conn.failed
    /\ conn.pc = "done" =>
          /\ conn.client \in {"up", "none"}
          /\ conn.client = "up" =>
                /\ conn.failed = conn.attempt - 1
                /\ Len(conn.slept) = conn.failed
          /\ (conn.client = "none") <=> (conn.failed = max_retries)
          /\ conn.failed = max_retries => Len(conn.slept) = max_retries - 1

\* C13: connect() terminates; it makes at most max_retries attempts, returns
\* right after the first attempt whose ping succeeds with the store enabled,
\* sleeps 2, 4, 8 and 16 seconds after the 1st to 4th failed attempts and
\* not after the 5th, and leaves redis_client None exactly when all
\* max_retries attempts failed.
ConnectProtocol == []ConnectSafe /\ <>(conn.pc = "done")

ConnectProtocolWitness ==
    /\ conn.pc = "done"
    /\ conn.client = "up"
    /\ conn.attempt = max_retries
    /\ conn.slept = Backoff

(* ----------------------------------------------------------------- C18 *)
\* C18: delete_pattern(p) on a connected store returns True; every key that
\* matched p is gone, every other key keeps its bytes and TTL, no key
\* appears, and when no key matched the store is what it was.
DeletePatternFrame ==
    [][(last'.op = "delete_pattern" /\ conn.client = "up") =>
          LET p == last'.arg[1]
          IN /\ last'.res = Bool(TRUE)
             /\ ~last'.raised
             /\ DOMAIN store' \subseteq DOMAIN store
             /\ \A k \in DOMAIN store :
                   IF GlobMatch(p, k) THEN k \notin DOMAIN store'
                   ELSE k \in DOMAIN store' /\ store'[k] = store[k]
             /\ (\A k \in DOMAIN store : ~GlobMatch(p, k)) =>
                   store' = store]_vars

\* a delete_pattern that removed a key and left one set with another TTL
DeletePatternFrameWitness ==
    /\ last.op = "delete_pattern"
    /\ last.res = Bool(TRUE)
    /\ last.dropped > 0
    /\ \E k \in DOMAIN store :
          ~GlobMatch(last.arg[1], k) /\ store[k].ttl = cache_ttl_bbb

(* ----------------------------------------------------------------- C16 *)
\* C16: under create_event, start_event, end_event, update_event,
\* delete_event and meeting_ended_callback an event is created scheduled and
\* its status changes only from scheduled to live, by start_event, and from
\* live to ended, by end_event (which the callback calls); ended and
\* cancelled do not change; update_event keeps the status; end_event on an
\* event that is not live raises and leaves the event as it is.
EventLifecycle ==
    [][\A e \in EventIds :
          /\ (~Exists(events, e) /\ Exists(events', e)) =>
                events'[e].status = "scheduled"
          /\ (Exists(events, e) /\ Exists(events', e)) =>
                /\ events'[e].status # events[e].status =>
                      \/ /\ events[e].status = "scheduled"
                         /\ events'[e].status = "live"
                         /\ last'.op = "start_event"
                      \/ /\ events[e].status = "live"
                         /\ events'[e].status = "ended"
                         /\ last'.op \in {"end_event", "meeting_ended_callback"}
                /\ events[e].status \in {"ended", "cancelled"} =>
                      events'[e].status = events[e].status
                /\ last'.op = "update_event" =>
                      events'[e].status = events[e].status
                /\ (/\ last'.op = "end_event"
                    /\ last'.arg[1] = e
                    /\ events[e].status # "live") =>
                      last'.raised /\ events'[e] = events[e]]_vars

\* an event that went through scheduled, live and ended refuses end_event
EventLifecycleWitness ==
    \E e \in EventIds :
        /\ events[e].status = "ended"
        /\ last.op = "end_event"
        /\ last.arg[1] = e
        /\ last.raised

(* ----------------------------------------------------------------- C17 *)
\* C17: once the invalidation of a write has completed, and while no other
\* write is under way, no entry of the cache holds a value from before the
\* write: every entry a read can be served from is what the wrapped
\* function returns now.
NoStaleAfterInvalidation ==
    proc.wpc = "idle" =>
        \A a \in Args :
            CachedHit(store, ReadKey(a)) => CacheGet(store, ReadKey(a)) = f[a]

(* ----------------------------------------------------------------- C19 *)
KeyOf(v) == CHOOSE k \in v.items : TRUE

\* C19: a derived key is prefix:operation:digest, the digest a hex token of
\* fixed length; deriving again with the same prefix, operation and
\* positional arguments and the same keyword arguments, in the same or in
\* another order, gives the same key.
KeyDeterministic ==
    [][last'.op = "derive" =>
          LET key == KeyOf(last'.res)
          IN /\ Len(key) = 4 + DigestLen
             /\ SubSeq(key, 1, 4) = <<last'.arg[1], ":", "fn", ":">>
             /\ \A i \in 5..Len(key) : \E h \in DOMAIN Hex : Hex[h] = key[i]
             /\ last'.again => last'.res = last.res]_vars

\* a derivation that follows one with the same keyword arguments and has
\* them out of the order of their names
KeyDeterministicWitness ==
    /\ last.op = "derive"
    /\ last.again
    /\ Len(last.arg[3]) = 2
    /\ last.arg[3][1][1] = "user_id"
    /\ last.arg[3][1][2] # last.arg[3][2][2]

(* ----------------------------------------------------------------- C20 *)
\* a read by cached_db that follows one with the same arguments but for the
\* database session
OtherSession ==
    /\ last.op = "read_db"
    /\ last'.op = "read_db"
    /\ last'.arg[1] = last.arg[1]
    /\ last'.arg[3] = last.arg[3]
    /\ last'.arg[2] # last.arg[2]

SameOpaqueKey ==
    OpaqueKey(last'.arg[1], last'.arg[2], last'.arg[3])
        = OpaqueKey(last.arg[1], last.arg[2], last.arg[3])

ChannelPrefixes == {"channels_all", "channels_user", "channels_by_id",
                    "channels_by_name", "channels_recordings"}

ChannelWrites == {"create_channel", "update_channel", "delete_channel"}

ChannelReads == {"get_channels", "get_channels_by_user_id", "get_channel_by_id",
                 "get_channel_by_name", "get_channel_recordings"}

\* C21: when create_channel, update_channel or delete_channel of
\* ChannelsServiceCached returns without an exception, the store holds no
\* entry under channels_all, channels_user, channels_by_id, channels_by_name
\* or channels_recordings, and a channel read that comes next invokes the
\* function it wraps.
ChannelsInvalidated ==
    [][/\ (last'.op \in ChannelWrites /\ ~last'.raised) =>
             \A k \in DOMAIN store' : k[1] \notin ChannelPrefixes
       /\ (last.op \in ChannelWrites /\ ~last.raised
             /\ last'.op \in ChannelReads) => last'.invoked]_vars

\* an update that swept entries of all five prefixes
ChannelsInvalidatedWitness ==
    /\ last.op = "update_channel"
    /\ last.ok
    /\ last.dropped >= 5
    /\ \A p \in ChannelPrefixes : PrefixPattern(p) \in
                                    {last.sweeps[i] : i \in DOMAIN last.sweeps}

(* ----------------------------------------------------------------- C22 *)
\* both coroutines are past a miss of the same key
BothMissed ==
    /\ \A i \in Callers : proc[i].missed /\ proc[i].pc \in {"setting", "returning"}
    /\ \A i, j \in Callers : proc[i].arg = proc[j].arg

\* C22: when two invocations of a cached read with the same key both
\* observe a miss, both invoke the wrapped function and both issue a set,
\* and after each set the entry of the key is the value that set wrote, so
\* the set that executes last decides what the store holds.
NoSingleFlight ==
    [][/\ BothMissed => \A i \in Callers : proc[i].invoked
       /\ \A i \in Callers :
            (proc[i].pc = "setting" /\ proc'[i].pc = "returning") =>
               /\ proc[i].missed /\ proc[i].invoked
               /\ ReadKey(proc[i].arg) \in DOMAIN store'
               /\ CacheGet(store', ReadKey(proc[i].arg)) = proc[i].val]_vars

\* both missed, both computed, the values differ, both have set, and the
\* store holds the value of the set that came last
NoSingleFlightWitness ==
    /\ BothMissed
    /\ \A i \in Callers : proc[i].pc = "returning"
    /\ \E i, j \in Callers : proc[i].val # proc[j].val
    /\ last.op = "set"
    /\ CacheGet(store, ReadKey(last.arg[2])) = proc[last.arg[1]].val
    /\ \E j \in Callers : CacheGet(store, ReadKey(last.arg[2])) # proc[j].val

(* ----------------------------------------------------------------- C23 *)
\* C23: after a create_event that succeeded, a get_channels or
\* get_channels_by_user_id that comes next does not return a list that was
\* cached before the channel of the event was created.
EventCreationRefreshesChannels ==
    [][(last.op = "create_event" /\ last.ok
          /\ last'.op \in {"get_channels", "get_channels_by_user_id"})
        => ~last'.stale]_vars

(* ----------------------------------------------------------------- C24 *)
EventReads == {"get_event_by_id", "get_upcoming_events", "get_live_events",
               "get_past_events"}

\* C24: an event read that is served from the cache returns no event that
\* went with its channel when delete_channel deleted the channel.
NoEventOfDeletedChannel ==
    (last.op \in EventReads /\ ~last.invoked) =>
        \A row \in last.res.items : Exists(events, row[1])

(* ----------------------------------------------------------------- C25 *)
\* C25: no two events have the same title, and every create_event call that
\* was rejected was answered with the validation error (400) and created no
\* channel.
DuplicateTitleRejected ==
    /\ \A x, y \in EventIds :
         (Exists(events, x) /\ Exists(events, y) /\ events[x].title = events[y].title)
            => x = y
    /\ \A i \in Callers :
         (proc[i].pc = "done" /\ proc[i].answer # 200) =>
            (proc[i].answer = 400 /\ ~proc[i].made)

(* ----------------------------------------------------------------- C26 *)
\* C26: a user has at most one channel of a name, and every event refers to
\* a channel of its creator that exists.
OneChannelPerName ==
    /\ \A u \in Users, n \in ChannelNames :
         Cardinality(ChannelsNamed(channels, u, n)) <= 1
    /\ \A e \in EventIds : Exists(events, e) =>
         /\ HasChannel(channels, events[e].channel)
         /\ channels[events[e].channel].creator = events[e].creator

UpdateReturnsUpdated ==
    last.op \in {"update_user_profile", "update_user_role"} =>
        last.res = UserObj(users, last.arg[1])

(* ----------------------------------------------------------------- C29 *)
\* C29: a call that is served from the cache never returns None; a call
\* that repeats a call which returned None invokes the wrapped function
\* again; a call that repeats a call which returned anything else, the empty
\* list included, does not invoke it and returns the same value.
NoneNeverServed ==
    [][last'.op = "call" =>
         /\ ~last'.invoked => last'.res # None
         /\ f[last'.arg[1]] = None => last'.invoked
         /\ (last'.again /\ last.res = None) => last'.invoked
         /\ (last'.again /\ last.res # None) =>
               (~last'.invoked /\ last'.res = last.res)]_vars

\* a None that was stored and, on the repeated call, computed again
NoneNeverServedWitness ==
    /\ last.op = "call"
    /\ last.again
    /\ last.invoked
    /\ last.res = None
    /\ ReadKey(last.arg[1]) \in DOMAIN store
    /\ \E a \in Args : f[a] = ListOf({}) /\ CachedHit(store, ReadKey(a))

(* ----------------------------------------------------------------- C30 *)
\* C30: for every event, at most one start_event call has made a BBB create
\* call that created the meeting.
MeetingCreatedOnce ==
    \A e \in EventIds :
        Cardinality({i \in Callers : proc[i].e = e /\ proc[i].created}) <= 1

====
